---- MODULE Spec2Model ----
(***************************************************************************)
(* ohgmas-watch: the task/segment data model (pkg/task), its reporting     *)
(* engine and the terminal front end's handlers (cmd/ow).                  *)
(*                                                                         *)
(* Time is an integer number of clock ticks.  ZeroTime is Go's time.Time{} *)
(* (IsZero), the "unset finish" sentinel; the wall clock only returns      *)
(* values >= 1.  A nil *time.Time is NilTime.  Strings that the code only  *)
(* compares for equality are TLA+ strings; tags, which the code sorts and  *)
(* joins, are sequences of character codes.                                *)
(***************************************************************************)
EXTENDS Integers, Sequences, FiniteSets, TLC

VARIABLES
    heap,      \* every Task ever allocated, by address (1..Len(heap))
    wTasks,    \* Watch.Tasks: the addresses of the watch's tasks, in order
    now,       \* the wall clock, what time.Now() returns
    call,      \* the call that the last step made: its arguments and result
    ui,        \* the App's own state (cmd/ow/ui.go)
    procs,     \* the goroutines of the concurrent specification
    locks,     \* the state of Watch.mu and of every Task.mu
    file       \* the tasks file on disk

vars == <<heap, wTasks, now, call, ui, procs, locks, file>>

-----------------------------------------------------------------------------
(* Bounds of the model *)

MaxTime == 3
MaxTasks == 2
MaxSegs == 2

-----------------------------------------------------------------------------
(* time.Time and *time.Time *)

ZeroTime == 0
NilTime == -1

IsZero(t) == t = ZeroTime
After(a, b) == a > b
Before(a, b) == a < b
Sub(a, b) == a - b

-----------------------------------------------------------------------------
(* Generic helpers over sequences *)

Range(s) == {s[i] : i \in 1..Len(s)}

Last(s) == s[Len(s)]

RECURSIVE SumSeq(_)
SumSeq(s) == IF s = <<>> THEN 0 ELSE Head(s) + SumSeq(Tail(s))

Range2(f) == {f[x] : x \in DOMAIN f}

\* The position of a task in a list of tasks.
PosIn(tasks, t) == CHOOSE i \in 1..Len(tasks) : tasks[i] = t

Perms(n) == {p \in [1..n -> 1..n] : \A i, j \in 1..n : i # j => p[i] # p[j]}

-----------------------------------------------------------------------------
(* pkg/task types *)

NewSegment(note, create) == [Create |-> create, Finish |-> ZeroTime, Note |-> note]

NewTask(name, tags, category) ==
    [Name |-> name, Tags |-> tags, Category |-> category, Segments |-> <<>>]

NoCall == [op |-> "none"]

\* The tasks file: missing, unreadable (it cannot be read, or its contents
\* cannot be parsed), or ok with the list of tasks written in it.  NoStore is
\* the file of a run that never opens one.
NoStore == [kind |-> "missing", tasks |-> <<>>]

\* yaml.Marshal(w.Tasks): the tasks, in the watch's order.
Marshal(h, w) == [i \in 1..Len(w) |-> h[w[i]]]

\* SaveTasksToFile: the file afterwards.  A failed marshal or write leaves
\* the file as it was.
SaveTasksToFile(saved, h, w, f) ==
    IF saved THEN [kind |-> "ok", tasks |-> Marshal(h, w)] ELSE f

\* LoadTasksFromFile on a watch holding the tasks old: the error returned and
\* the tasks the watch holds afterwards.  A missing file is not an error and
\* empties the watch; a file that cannot be read or parsed is an error.
LoadTasksFromFile(f, old) ==
    CASE f.kind = "missing" -> [err |-> FALSE, tasks |-> <<>>]
      [] f.kind = "unreadable" -> [err |-> TRUE, tasks |-> old]
      [] OTHER -> [err |-> FALSE, tasks |-> f.tasks]

-----------------------------------------------------------------------------
(* Task methods, on the value of one task *)

\* An AddSegment that ends the work in progress before starting the new
\* segment (the at-most-one-open rule enforced in the model itself).
AddSegmentClosingOpen(segs, note, t) ==
    Append([i \in 1..Len(segs) |->
               IF segs[i].Finish = ZeroTime THEN [segs[i] EXCEPT !.Finish = t] ELSE segs[i]],
           NewSegment(note, t))

\* AddSegment: append one open segment created at the clock's reading.
AddSegmentTo(segs, note, t) == Append(segs, NewSegment(note, t))

\* CloseSegment: walk the segments in order; every open one gets its own
\* time.Now(), and the clock may advance between two readings.  The set of
\* <<segments after the call, clock after the call>>.
RECURSIVE CloseFrom(_, _, _)
CloseFrom(segs, i, t) ==
    IF i > Len(segs) THEN {<<segs, t>>}
    ELSE IF IsZero(segs[i].Finish)
         THEN UNION {CloseFrom([segs EXCEPT ![i].Finish = u], i + 1, u) : u \in t..MaxTime}
         ELSE CloseFrom(segs, i + 1, t)

\* A CloseSegment that closes the most recent segment only.
CloseOnlyLast(segs, t) ==
    IF segs # <<>> /\ IsZero(Last(segs).Finish)
    THEN {<<[segs EXCEPT ![Len(segs)].Finish = t], t>>}
    ELSE {<<segs, t>>}

\* A CloseSegment without the IsZero test: it stamps every segment again.
CloseStampingAll(segs, t) ==
    {<<[i \in 1..Len(segs) |-> [segs[i] EXCEPT !.Finish = t]], t>>}

CloseSegmentOutcomes(segs, t) == CloseFrom(segs, 1, t)

HasUnclosedSegment(task) == \E i \in 1..Len(task.Segments) : IsZero(task.Segments[i].Finish)

IsActive(task) == HasUnclosedSegment(task)

RECURSIVE ClosedDuration(_)
ClosedDuration(segs) ==
    IF segs = <<>> THEN 0
    ELSE (IF ~IsZero(Head(segs).Finish) THEN Sub(Head(segs).Finish, Head(segs).Create) ELSE 0)
         + ClosedDuration(Tail(segs))

GetClosedSegmentsDuration(task) == ClosedDuration(task.Segments)

GetCategory(task) == task.Category

GetLastActivity(task) ==
    IF Len(task.Segments) = 0 THEN ZeroTime
    ELSE IF IsZero(Last(task.Segments).Finish) THEN Last(task.Segments).Create
         ELSE Last(task.Segments).Finish

-----------------------------------------------------------------------------
(* Filtering by time range (segment.go) *)

\* The lower bound taken as inclusive.
isSegmentInRangeFromStart(segment, start, finish) ==
    /\ ~IsZero(segment.Finish)
    /\ ~(start # NilTime /\ Before(segment.Finish, start))
    /\ ~(finish # NilTime /\ After(segment.Finish, finish))

\* The upper bound taken as exclusive.
isSegmentInRangeBeforeFinish(segment, start, finish) ==
    /\ ~IsZero(segment.Finish)
    /\ ~(start # NilTime /\ ~After(segment.Finish, start))
    /\ ~(finish # NilTime /\ ~Before(segment.Finish, finish))

isSegmentInRange(segment, start, finish) ==
    IF IsZero(segment.Finish) THEN FALSE
    ELSE IF start # NilTime /\ ~After(segment.Finish, start) THEN FALSE
    ELSE IF finish # NilTime /\ After(segment.Finish, finish) THEN FALSE
    ELSE TRUE

\* A task counts as in range as soon as it has a closed segment.
HasClosedSegment(task, start, finish) ==
    \E i \in 1..Len(task.Segments) : ~IsZero(task.Segments[i].Finish)

HasSegmentsInRange(task, start, finish) ==
    \E i \in 1..Len(task.Segments) : isSegmentInRange(task.Segments[i], start, finish)

RECURSIVE FilteredDuration(_, _, _)
FilteredDuration(segs, start, finish) ==
    IF segs = <<>> THEN 0
    ELSE (IF isSegmentInRange(Head(segs), start, finish)
          THEN Sub(Head(segs).Finish, Head(segs).Create) ELSE 0)
         + FilteredDuration(Tail(segs), start, finish)

\* The duration of every closed segment, in range or not.
UnfilteredDuration(task, start, finish) == ClosedDuration(task.Segments)

GetFilteredClosedSegmentsDuration(task, start, finish) ==
    FilteredDuration(task.Segments, start, finish)

RECURSIVE ThisWeekDuration(_, _)
ThisWeekDuration(segs, weekStart) ==
    IF segs = <<>> THEN 0
    ELSE (IF ~IsZero(Head(segs).Finish) /\ After(Head(segs).Finish, weekStart)
          THEN Sub(Head(segs).Finish, Head(segs).Create) ELSE 0)
         + ThisWeekDuration(Tail(segs), weekStart)

GetThisWeekDuration(task, weekStart) == ThisWeekDuration(task.Segments, weekStart)

-----------------------------------------------------------------------------
(* Tagset keys: sort.Strings, strings.Join *)

RECURSIVE StrLess(_, _)
StrLess(a, b) ==
    IF b = <<>> THEN FALSE
    ELSE IF a = <<>> THEN TRUE
    ELSE IF Head(a) # Head(b) THEN Head(a) < Head(b)
    ELSE StrLess(Tail(a), Tail(b))

RECURSIVE InsertSorted(_, _)
InsertSorted(x, sorted) ==
    IF sorted = <<>> THEN <<x>>
    ELSE IF StrLess(x, Head(sorted)) THEN <<x>> \o sorted
    ELSE <<Head(sorted)>> \o InsertSorted(x, Tail(sorted))

\* sort.Strings left out: the tags joined in the order the task has them.
Unsorted(list) == list

RECURSIVE SortStrings(_)
SortStrings(list) ==
    IF list = <<>> THEN <<>> ELSE InsertSorted(Head(list), SortStrings(Tail(list)))

RECURSIVE Join(_, _)
Join(list, sep) ==
    IF list = <<>> THEN <<>>
    ELSE IF Len(list) = 1 THEN Head(list)
    ELSE Head(list) \o sep \o Join(Tail(list), sep)

CommaSpace == <<44, 32>>

\* "(no tags)"
NoTagsKey == <<40, 110, 111, 32, 116, 97, 103, 115, 41>>

TagsetKey(tags) ==
    LET tagsetKey == Join(SortStrings(tags), CommaSpace)
    IN IF tagsetKey = <<>> THEN NoTagsKey ELSE tagsetKey

-----------------------------------------------------------------------------
(* Summaries (summary.go) *)

TicksPerDay == 2

AddDate(t, days) == t + days * TicksPerDay

DaysPerWeek == 7

\* The loop of GetSummaryByTagset leaving every group's task list empty.
RECURSIVE TagsetLoopWithoutTasks(_, _, _, _, _)
TagsetLoopWithoutTasks(ts, i, tagsetMap, start, finish) ==
    IF i > Len(ts) THEN tagsetMap
    ELSE LET currentTask == heap[ts[i]] IN
         IF (start # NilTime \/ finish # NilTime)
               /\ ~HasSegmentsInRange(currentTask, start, finish)
         THEN TagsetLoopWithoutTasks(ts, i + 1, tagsetMap, start, finish)
         ELSE LET key == TagsetKey(currentTask.Tags)
                  old == IF key \in DOMAIN tagsetMap THEN tagsetMap[key]
                         ELSE [Tagset |-> key, Tasks |-> <<>>, Duration |-> 0]
                  upd == [Tagset |-> key,
                          Tasks |-> <<>>,
                          Duration |-> old.Duration +
                              GetFilteredClosedSegmentsDuration(currentTask, start, finish)]
              IN TagsetLoopWithoutTasks(ts, i + 1,
                            [k \in DOMAIN tagsetMap \cup {key} |->
                                IF k = key THEN upd ELSE tagsetMap[k]],
                            start, finish)

\* The loop of GetSummaryByTagset over w.Tasks: the map from tagset key to
\* TagsetSummary after the tasks ts[i..] have been visited.
RECURSIVE TagsetLoop(_, _, _, _, _)
TagsetLoop(ts, i, tagsetMap, start, finish) ==
    IF i > Len(ts) THEN tagsetMap
    ELSE LET currentTask == heap[ts[i]] IN
         IF (start # NilTime \/ finish # NilTime)
               /\ ~HasSegmentsInRange(currentTask, start, finish)
         THEN TagsetLoop(ts, i + 1, tagsetMap, start, finish)
         ELSE LET key == TagsetKey(currentTask.Tags)
                  old == IF key \in DOMAIN tagsetMap THEN tagsetMap[key]
                         ELSE [Tagset |-> key, Tasks |-> <<>>, Duration |-> 0]
                  upd == [Tagset |-> key,
                          Tasks |-> Append(old.Tasks, ts[i]),
                          Duration |-> old.Duration +
                              GetFilteredClosedSegmentsDuration(currentTask, start, finish)]
              IN TagsetLoop(ts, i + 1,
                            [k \in DOMAIN tagsetMap \cup {key} |->
                                IF k = key THEN upd ELSE tagsetMap[k]],
                            start, finish)

\* The loop of GetWeeklySummaryByTagsetWithTasks over w.Tasks: it filters by
\* HasSegmentsInRange unconditionally.
RECURSIVE TagsetLoopWithTasks(_, _, _, _, _)
TagsetLoopWithTasks(ts, i, tagsetMap, weekStart, weekEnd) ==
    IF i > Len(ts) THEN tagsetMap
    ELSE LET currentTask == heap[ts[i]] IN
         IF ~HasSegmentsInRange(currentTask, weekStart, weekEnd)
         THEN TagsetLoopWithTasks(ts, i + 1, tagsetMap, weekStart, weekEnd)
         ELSE LET key == TagsetKey(currentTask.Tags)
                  old == IF key \in DOMAIN tagsetMap THEN tagsetMap[key]
                         ELSE [Tagset |-> key, Tasks |-> <<>>, Duration |-> 0]
                  taskDuration ==
                      GetFilteredClosedSegmentsDuration(currentTask, weekStart, weekEnd)
                  upd == [Tagset |-> key,
                          Tasks |-> Append(old.Tasks, ts[i]),
                          Duration |-> old.Duration + taskDuration]
              IN TagsetLoopWithTasks(ts, i + 1,
                            [k \in DOMAIN tagsetMap \cup {key} |->
                                IF k = key THEN upd ELSE tagsetMap[k]],
                            weekStart, weekEnd)

EmptyMap == [k \in {} |-> 0]

\* The map's values in any order, sort.Slice left out.
UnsortedSummaries(tagsetMap) ==
    LET keys == DOMAIN tagsetMap
        n == Cardinality(keys)
    IN {s \in [1..n -> Range2(tagsetMap)] :
           \A k \in keys : \E i \in 1..n : s[i] = tagsetMap[k]}

\* The map's values in any order (Go's map iteration), then sort.Slice by
\* Duration, descending: every arrangement with no later summary strictly
\* longer than an earlier one (sort.Slice is not stable).
SortedByDuration(tagsetMap) ==
    LET keys == DOMAIN tagsetMap
        n == Cardinality(keys)
    IN {s \in [1..n -> Range2(tagsetMap)] :
           /\ \A k \in keys : \E i \in 1..n : s[i] = tagsetMap[k]
           /\ \A i, j \in 1..n : i < j => ~(s[j].Duration > s[i].Duration)}

GetSummaryByTagset(start, finish) ==
    SortedByDuration(TagsetLoop(wTasks, 1, EmptyMap, start, finish))

\* The weekly loop without the test for an empty week.
RECURSIVE WeeklyLoopKeepingEmpty(_, _)
WeeklyLoopKeepingEmpty(weekStarts, i) ==
    IF i > Len(weekStarts) THEN {<<>>}
    ELSE LET weekStart == weekStarts[i]
             weekEnd == AddDate(weekStart, DaysPerWeek)
         IN {<<[WeekStart |-> weekStart, Tagsets |-> tagsetSummaries]>> \o rest :
                tagsetSummaries \in GetSummaryByTagset(weekStart, weekEnd),
                rest \in WeeklyLoopKeepingEmpty(weekStarts, i + 1)}

\* The possible results of the weekly loop from week i on.
RECURSIVE WeeklyLoop(_, _)
WeeklyLoop(weekStarts, i) ==
    IF i > Len(weekStarts) THEN {<<>>}
    ELSE LET weekStart == weekStarts[i]
             weekEnd == AddDate(weekStart, DaysPerWeek)
         IN {(IF Len(tagsetSummaries) > 0
              THEN <<[WeekStart |-> weekStart, Tagsets |-> tagsetSummaries]>>
              ELSE <<>>) \o rest :
                tagsetSummaries \in GetSummaryByTagset(weekStart, weekEnd),
                rest \in WeeklyLoop(weekStarts, i + 1)}

GetWeeklySummaryByTagset(weekStarts) == WeeklyLoop(weekStarts, 1)

RECURSIVE WeeklyLoopWithTasks(_, _)
WeeklyLoopWithTasks(weekStarts, i) ==
    IF i > Len(weekStarts) THEN {<<>>}
    ELSE LET weekStart == weekStarts[i]
             weekEnd == AddDate(weekStart, DaysPerWeek)
         IN {(IF Len(tagsetSummaries) > 0
              THEN <<[WeekStart |-> weekStart, Tagsets |-> tagsetSummaries]>>
              ELSE <<>>) \o rest :
                tagsetSummaries \in SortedByDuration(
                    TagsetLoopWithTasks(wTasks, 1, EmptyMap, weekStart, weekEnd)),
                rest \in WeeklyLoopWithTasks(weekStarts, i + 1)}

GetWeeklySummaryByTagsetWithTasks(weekStarts) == WeeklyLoopWithTasks(weekStarts, 1)

-----------------------------------------------------------------------------
(* Activity sort (task.go) *)

\* The comparator with the order reversed: oldest activity first.
ActivityLessOldestFirst(taskA, taskB) ==
    LET lastActivityA == GetLastActivity(taskA)
        lastActivityB == GetLastActivity(taskB)
    IN IF IsZero(lastActivityA) /\ IsZero(lastActivityB) THEN FALSE
       ELSE IF IsZero(lastActivityA) THEN FALSE
       ELSE IF IsZero(lastActivityB) THEN TRUE
       ELSE Before(lastActivityA, lastActivityB)

\* The comparator handed to sort.Slice.
ActivityLess(taskA, taskB) ==
    LET lastActivityA == GetLastActivity(taskA)
        lastActivityB == GetLastActivity(taskB)
    IN IF IsZero(lastActivityA) /\ IsZero(lastActivityB) THEN FALSE
       ELSE IF IsZero(lastActivityA) THEN FALSE
       ELSE IF IsZero(lastActivityB) THEN TRUE
       ELSE After(lastActivityA, lastActivityB)

\* sort.Slice promises an arrangement in which no element is less than one
\* before it, and nothing about elements neither of which is less than the
\* other.  The possible results: every such arrangement of the indices,
\* applied to tasks (addresses into the memory h).  An empty input is
\* returned as it is.
sortTasksByActivity(h, tasks) ==
    IF Len(tasks) = 0 THEN {tasks}
    ELSE {[i \in 1..Len(tasks) |-> tasks[taskIndices[i]]] :
            taskIndices \in {p \in Perms(Len(tasks)) :
                \A i, j \in 1..Len(tasks) :
                    i < j => ~ActivityLess(h[tasks[p[j]]], h[tasks[p[i]]])}}

GetTasksSortedByActivity(h, w) == sortTasksByActivity(h, w)

RECURSIVE FilterByCategory(_, _, _)
FilterByCategory(h, w, category) ==
    IF w = <<>> THEN <<>>
    ELSE (IF GetCategory(h[Head(w)]) = category THEN <<Head(w)>> ELSE <<>>)
         \o FilterByCategory(h, Tail(w), category)

GetTasksByCategory(h, w, category) ==
    sortTasksByActivity(h, FilterByCategory(h, w, category))

GetTasksSortedByActivityWithFilter(h, w, categoryFilter) ==
    IF categoryFilter = "" THEN GetTasksSortedByActivity(h, w)
    ELSE GetTasksByCategory(h, w, categoryFilter)

\* The index (from 0) of the first element of w.Tasks that is the task, or -1.
GetTaskIndex(w, task) ==
    IF \E i \in 1..Len(w) : w[i] = task
    THEN (CHOOSE i \in 1..Len(w) : w[i] = task /\ \A j \in 1..(i - 1) : w[j] # task) - 1
    ELSE -1

-----------------------------------------------------------------------------
(* The sequential specification: the package's mutating calls, one call    *)
(* per step, starting from an empty watch.                                 *)

Names == {"t"}
Notes == {"", "n"}
Categories == {""}
TagLists == {<<>>}

TotalSegs == SumSeq([i \in 1..Len(heap) |-> Len(heap[i].Segments)])

NoUI == [rowToTaskIndex |-> <<>>]

Init ==
    /\ heap = <<>>
    /\ wTasks = <<>>
    /\ now = 1
    /\ call = NoCall
    /\ ui = NoUI
    /\ procs = <<>>
    /\ locks = <<>>
    /\ file = NoStore

\* time passes
Tick ==
    /\ now < MaxTime
    /\ now' = now + 1
    /\ call' = NoCall
    /\ UNCHANGED <<heap, wTasks, ui, procs, locks, file>>

AddTask(name, tags, category) ==
    /\ Len(wTasks) < MaxTasks
    /\ heap' = Append(heap, NewTask(name, tags, IF category = "" THEN "work" ELSE category))
    /\ wTasks' = Append(wTasks, Len(heap) + 1)
    /\ call' = [op |-> "AddTask", task |-> Len(heap) + 1]
    /\ UNCHANGED <<now, ui, procs, locks, file>>

AddSegment(t, note) ==
    /\ TotalSegs < MaxSegs
    /\ heap' = [heap EXCEPT ![t].Segments = AddSegmentTo(@, note, now)]
    /\ call' = [op |-> "AddSegment", task |-> t, at |-> now, note |-> note,
                pre |-> heap[t].Segments]
    /\ UNCHANGED <<wTasks, now, ui, procs, locks, file>>

CloseSegment(t) ==
    \E out \in CloseSegmentOutcomes(heap[t].Segments, now) :
        /\ heap' = [heap EXCEPT ![t].Segments = out[1]]
        /\ now' = out[2]
        /\ call' = [op |-> "CloseSegment", task |-> t, at |-> now, pre |-> heap[t].Segments]
        /\ UNCHANGED <<wTasks, ui, procs, locks, file>>

Next ==
    \/ Tick
    \/ \E n \in Names, tg \in TagLists, c \in Categories : AddTask(n, tg, c)
    \/ \E t \in Range(wTasks), n \in Notes : AddSegment(t, n)
    \/ \E t \in Range(wTasks) : CloseSegment(t)

Spec == Init /\ [][Next]_vars

-----------------------------------------------------------------------------
(* Claims about the segment lifecycle, under Spec *)

OpenIdx(segs) == {i \in 1..Len(segs) : IsZero(segs[i].Finish)}

\* C4: CloseSegment closes every open segment of the task, not only the most
\* recent one: after the call no segment of the task is open, and each segment
\* that was open has its finish set to a clock reading taken during the call.
C4_CloseSegmentClosesAll ==
    call.op = "CloseSegment" =>
        LET segs == heap[call.task].Segments IN
        /\ ~HasUnclosedSegment(heap[call.task])
        /\ Len(segs) = Len(call.pre)
        /\ \A i \in OpenIdx(call.pre) : call.at <= segs[i].Finish /\ segs[i].Finish <= now

C4_Witness ==
    /\ call.op = "CloseSegment"
    /\ Cardinality(OpenIdx(call.pre)) >= 2

\* C5: a segment's create timestamp and note never change, a closed segment's
\* finish never changes (so it is never reopened), no segment is removed from
\* its task, and a CloseSegment on a task with no open segment changes nothing.
C5_SegmentLifecycle ==
    [][ /\ Len(heap') >= Len(heap)
        /\ \A t \in 1..Len(heap) :
              LET old == heap[t].Segments
                  new == heap'[t].Segments
              IN /\ Len(new) >= Len(old)
                 /\ \A i \in 1..Len(old) :
                       /\ new[i].Create = old[i].Create
                       /\ new[i].Note = old[i].Note
                       /\ ~IsZero(old[i].Finish) => new[i].Finish = old[i].Finish
                 /\ (call'.op = "CloseSegment" /\ call'.task = t /\ ~HasUnclosedSegment(heap[t]))
                        => (heap' = heap /\ now' = now) ]_vars

C5_Witness ==
    /\ call.op = "CloseSegment"
    /\ call.pre # <<>>
    /\ OpenIdx(call.pre) = {}
    /\ heap[call.task].Segments = call.pre

\* C7: AddSegment makes no check for an open segment: every call appends one
\* open segment (finish unset, create = now, the given note) at the end and
\* leaves the existing segments untouched, so two calls in a row leave two
\* segments open.
C7_AddSegmentAppendsOpen ==
    call.op = "AddSegment" =>
        /\ heap[call.task].Segments =
               Append(call.pre, [Create |-> call.at, Finish |-> ZeroTime, Note |-> call.note])
        /\ OpenIdx(heap[call.task].Segments) = OpenIdx(call.pre) \cup {Len(call.pre) + 1}

C7_Witness ==
    /\ call.op = "AddSegment"
    /\ OpenIdx(call.pre) # {}
    /\ Cardinality(OpenIdx(heap[call.task].Segments)) >= 2

\* GetCurrentSegmentDuration at time t: time.Since(Create) of the last
\* segment when it is open, else 0.
GetCurrentSegmentDuration(task, t) ==
    IF Len(task.Segments) = 0 THEN 0
    ELSE LET lastSegment == Last(task.Segments)
         IN IF IsZero(lastSegment.Finish) THEN Sub(t, lastSegment.Create) ELSE 0

LastOpen(task) == Len(task.Segments) > 0 /\ IsZero(Last(task.Segments).Finish)

\* C29: in every state reached from tasks with no segments by AddSegment and
\* CloseSegment, the open segments of a task are the last ones of its list;
\* so HasUnclosedSegment and IsActive are true exactly when the last segment
\* is open, and GetCurrentSegmentDuration of an active task is the time
\* since its last segment was created, not the 0 of a closed last segment.
C29_OpenSegmentsAreSuffix ==
    \A t \in 1..Len(heap) :
        LET segs == heap[t].Segments IN
        /\ \A i, j \in 1..Len(segs) : (i < j /\ IsZero(segs[i].Finish)) => IsZero(segs[j].Finish)
        /\ HasUnclosedSegment(heap[t]) <=> LastOpen(heap[t])
        /\ IsActive(heap[t]) <=> LastOpen(heap[t])
        /\ IsActive(heap[t]) =>
              GetCurrentSegmentDuration(heap[t], now) = Sub(now, Last(segs).Create)

\* A task closed once and started again, some time ago.
C29_Witness ==
    \E t \in 1..Len(heap) :
        /\ Len(heap[t].Segments) = 2
        /\ ~IsZero(heap[t].Segments[1].Finish)
        /\ IsZero(heap[t].Segments[2].Finish)
        /\ GetCurrentSegmentDuration(heap[t], now) > 0

-----------------------------------------------------------------------------
(* Watches as a tasks file may hold them: LoadTasksFromFile accepts any list *)
(* of tasks, with any segments.                                             *)

SeqsUpTo(S, n) == UNION {[1..k -> S] : k \in 0..n}

TasksOver(tagLists, segLists) ==
    {[Name |-> "t", Tags |-> tg, Category |-> "work", Segments |-> sg] :
        tg \in tagLists, sg \in segLists}

SegCount(tasks) == SumSeq([i \in 1..Len(tasks) |-> Len(tasks[i].Segments)])

Addresses(tasks) == [i \in 1..Len(tasks) |-> i]

\* The watch of Len(tags) tasks in which task i has the tags tags[i] and the
\* next lens[i] segments of segs.
WatchOf(tags, lens, segs) ==
    [i \in 1..Len(tags) |->
        [Name |-> "t", Tags |-> tags[i], Category |-> "work",
         Segments |-> [j \in 1..lens[i] |->
                          segs[SumSeq([k \in 1..(i - 1) |-> lens[k]]) + j]]]]

TagA == <<97>>

-----------------------------------------------------------------------------
(* The weekly report over a loaded watch: SpecWeekly *)

WMaxTasks == 1
WMaxSegs == 2
WMaxWeeks == 2

Week == AddDate(0, DaysPerWeek)

\* Week starts are multiples of a week.  Segments finish on a week boundary
\* (after one tick of work) or one tick after it (after two ticks of work),
\* or are still open.
WBoundaries == {k * Week : k \in 1..(WMaxWeeks + 1)}
WSegments ==
    {[Create |-> b - 1, Finish |-> b, Note |-> ""] : b \in WBoundaries}
        \cup {[Create |-> b - 1, Finish |-> b + 1, Note |-> ""] : b \in WBoundaries}
        \cup {[Create |-> Week + 1, Finish |-> ZeroTime, Note |-> ""]}

\* Lists of week starts exactly one week apart.
WWeekStarts ==
    {[i \in 1..n |-> (k + i - 1) * Week] : k \in 1..WMaxWeeks, n \in 1..WMaxWeeks}

InitWeekly ==
    /\ \E n \in 0..WMaxTasks :
          \E tags \in [1..n -> {<<>>, <<TagA>>}], lens \in [1..n -> 0..WMaxSegs] :
              /\ SumSeq(lens) <= WMaxSegs
              /\ \E segs \in [1..SumSeq(lens) -> WSegments] :
                    heap = WatchOf(tags, lens, segs)
    /\ wTasks = Addresses(heap)
    /\ now = 1
    /\ call = NoCall
    /\ ui = NoUI
    /\ procs = <<>>
    /\ locks = <<>>
    /\ file = NoStore

\* The summaries read the watch and change nothing in it, so one call per
\* loaded watch shows everything a sequence of calls can show.
CallGetWeeklySummaryByTagset(weekStarts) ==
    /\ call = NoCall
    /\ \E r \in GetWeeklySummaryByTagset(weekStarts) :
          call' = [op |-> "GetWeeklySummaryByTagset", weekStarts |-> weekStarts, ret |-> r]
    /\ UNCHANGED <<heap, wTasks, now, ui, procs, locks, file>>

CallGetWeeklySummaryByTagsetWithTasks(weekStarts) ==
    /\ call = NoCall
    /\ \E r \in GetWeeklySummaryByTagsetWithTasks(weekStarts) :
          call' = [op |-> "GetWeeklySummaryByTagsetWithTasks",
                   weekStarts |-> weekStarts, ret |-> r]
    /\ UNCHANGED <<heap, wTasks, now, ui, procs, locks, file>>

\* The two per-task durations the table and the report show for a week.
CallGetThisWeekDuration(t, weekStart) ==
    /\ call = NoCall
    /\ call' = [op |-> "GetThisWeekDuration", task |-> t, weekStart |-> weekStart,
                ret |-> GetThisWeekDuration(heap[t], weekStart)]
    /\ UNCHANGED <<heap, wTasks, now, ui, procs, locks, file>>

CallGetFilteredClosedSegmentsDuration(t, start, finish) ==
    /\ call = NoCall
    /\ call' = [op |-> "GetFilteredClosedSegmentsDuration", task |-> t,
                start |-> start, finish |-> finish,
                ret |-> GetFilteredClosedSegmentsDuration(heap[t], start, finish)]
    /\ UNCHANGED <<heap, wTasks, now, ui, procs, locks, file>>

NextWeekly ==
    \/ \E ws \in WWeekStarts : CallGetWeeklySummaryByTagset(ws)
    \/ \E ws \in WWeekStarts : CallGetWeeklySummaryByTagsetWithTasks(ws)
    \/ \E t \in Range(wTasks), w \in WBoundaries : CallGetThisWeekDuration(t, w)
    \/ \E t \in Range(wTasks), start, finish \in WBoundaries \cup {NilTime} :
          CallGetFilteredClosedSegmentsDuration(t, start, finish)

SpecWeekly == InitWeekly /\ [][NextWeekly]_vars

-----------------------------------------------------------------------------
(* Claims about week buckets, under SpecWeekly *)

\* The closed segments of the watch, as <<position in w.Tasks, position in Segments>>.
ClosedSegs ==
    {<<x, i>> \in (1..Len(wTasks)) \X (1..WMaxSegs + 1) :
        /\ i <= Len(heap[wTasks[x]].Segments)
        /\ ~IsZero(heap[wTasks[x]].Segments[i].Finish)}

SegAt(xi) == heap[wTasks[xi[1]]].Segments[xi[2]]

SegDuration(xi) == SegAt(xi).Finish - SegAt(xi).Create

\* The sum of the durations of a set of segments.
RECURSIVE SumDurations(_)
SumDurations(S) ==
    IF S = {} THEN 0
    ELSE LET x == CHOOSE y \in S : TRUE IN SegDuration(x) + SumDurations(S \ {x})

\* What a weekly result reports for the week starting at w.
WeekTotal(ret, w) ==
    SumSeq([e \in 1..Len(ret) |->
        IF ret[e].WeekStart = w
        THEN SumSeq([g \in 1..Len(ret[e].Tagsets) |-> ret[e].Tagsets[g].Duration])
        ELSE 0])

WeekEntries(ret, w) == {e \in 1..Len(ret) : ret[e].WeekStart = w}

ListedIn(ret, w, t) ==
    \E e \in WeekEntries(ret, w) :
        \E g \in 1..Len(ret[e].Tagsets) : t \in Range(ret[e].Tagsets[g].Tasks)

\* C2: contiguous week buckets partition the closed segments: every week's
\* total is the durations of the segments finishing after its start and not
\* after its end, the totals of all weeks add up to the durations of the
\* segments finishing after the first start and not after the last end (each
\* counted once), every such segment's task is listed in exactly the week
\* whose bucket holds it, and a segment finishing on the boundary of two
\* weeks is counted in the earlier one.
C2_WeekBucketsPartition ==
    call.op = "GetWeeklySummaryByTagset" =>
        LET ws == call.weekStarts
            n == Len(ws)
            InBucket(xi, k) ==
                SegAt(xi).Finish > ws[k] /\ SegAt(xi).Finish <= AddDate(ws[k], DaysPerWeek)
            Covered == {xi \in ClosedSegs :
                           SegAt(xi).Finish > ws[1]
                               /\ SegAt(xi).Finish <= AddDate(ws[n], DaysPerWeek)}
        IN /\ \A k \in 1..n :
                 /\ WeekTotal(call.ret, ws[k]) =
                        SumDurations({xi \in ClosedSegs : InBucket(xi, k)})
                 /\ Cardinality(WeekEntries(call.ret, ws[k])) <= 1
           /\ SumSeq([k \in 1..n |-> WeekTotal(call.ret, ws[k])]) = SumDurations(Covered)
           /\ \A xi \in Covered :
                 /\ Cardinality({k \in 1..n : InBucket(xi, k)}) = 1
                 /\ \A k \in 1..n : InBucket(xi, k) => ListedIn(call.ret, ws[k], wTasks[xi[1]])
           /\ \A xi \in ClosedSegs : \A k \in 1..(n - 1) :
                 (SegAt(xi).Finish = ws[k + 1] /\ Len(heap[wTasks[xi[1]]].Segments) = 1)
                     => /\ ListedIn(call.ret, ws[k], wTasks[xi[1]])
                        /\ ~ListedIn(call.ret, ws[k + 1], wTasks[xi[1]])

C2_Witness ==
    /\ call.op = "GetWeeklySummaryByTagset"
    /\ Len(call.weekStarts) >= 2
    /\ \E xi \in ClosedSegs : SegAt(xi).Finish = call.weekStarts[2]
    /\ Len(call.ret) >= 1

WeeklyOps == {"GetWeeklySummaryByTagset", "GetWeeklySummaryByTagsetWithTasks"}

WeekHasSegment(w) ==
    \E x \in 1..Len(wTasks) :
        \E i \in 1..Len(heap[wTasks[x]].Segments) :
            LET f == heap[wTasks[x]].Segments[i].Finish
            IN ~IsZero(f) /\ f > w /\ f <= AddDate(w, DaysPerWeek)

\* C15: GetWeeklySummaryByTagset returns one entry for each given week start
\* in which some task has a segment, in the order given, and none for the
\* other weeks: no entry has zero groups and the result is never longer than
\* the list of week starts.
C15_OneEntryPerWeekWithData ==
    call.op = "GetWeeklySummaryByTagset" =>
        /\ [e \in 1..Len(call.ret) |-> call.ret[e].WeekStart] =
               SelectSeq(call.weekStarts, WeekHasSegment)
        /\ \A e \in 1..Len(call.ret) : Len(call.ret[e].Tagsets) > 0
        /\ Len(call.ret) <= Len(call.weekStarts)

\* Two weeks asked for, the first one empty and left out.
C15_Witness ==
    /\ call.op = "GetWeeklySummaryByTagset"
    /\ Len(call.weekStarts) = 2
    /\ Len(call.ret) = 1
    /\ call.ret[1].WeekStart = call.weekStarts[2]

SumOfSegments(task) ==
    SumSeq([i \in 1..Len(task.Segments) |->
               task.Segments[i].Finish - task.Segments[i].Create])

\* The call is GetThisWeekDuration(w), or
\* GetFilteredClosedSegmentsDuration(w, w + 7 days), on a task.
IsWeekDurationCall(w) ==
    \/ call.op = "GetThisWeekDuration" /\ call.weekStart = w
    \/ /\ call.op = "GetFilteredClosedSegmentsDuration"
       /\ call.start = w
       /\ call.finish = AddDate(w, DaysPerWeek)

\* C17, as the specification states it: for a task whose only segments are
\* closed within [weekStart, weekStart + 7 days), both durations are the sum
\* of finish - create over its segments.
C17_WeekRoundTripHalfOpen ==
    \A w \in WBoundaries :
        (/\ IsWeekDurationCall(w)
         /\ \A i \in 1..Len(heap[call.task].Segments) :
               LET f == heap[call.task].Segments[i].Finish
               IN ~IsZero(f) /\ f >= w /\ f < AddDate(w, DaysPerWeek))
            => call.ret = SumOfSegments(heap[call.task])

\* C17, amended: for a task whose only segments are closed after weekStart
\* and not after weekStart + 7 days, both durations are the sum of
\* finish - create over its segments.
C17_WeekRoundTrip ==
    \A w \in WBoundaries :
        (/\ IsWeekDurationCall(w)
         /\ \A i \in 1..Len(heap[call.task].Segments) :
               LET f == heap[call.task].Segments[i].Finish
               IN ~IsZero(f) /\ f > w /\ f <= AddDate(w, DaysPerWeek))
            => call.ret = SumOfSegments(heap[call.task])

\* GetFilteredClosedSegmentsDuration over a week on a task with two segments,
\* one of them closed exactly at the end of the week, both counted.
C17_Witness ==
    /\ call.op = "GetFilteredClosedSegmentsDuration"
    /\ call.start # NilTime
    /\ call.finish = AddDate(call.start, DaysPerWeek)
    /\ Len(heap[call.task].Segments) = 2
    /\ \A i \in 1..2 :
          LET f == heap[call.task].Segments[i].Finish
          IN ~IsZero(f) /\ f > call.start /\ f <= call.finish
    /\ heap[call.task].Segments[2].Finish = call.finish
    /\ call.ret = SumOfSegments(heap[call.task])
    /\ call.ret > 0

-----------------------------------------------------------------------------
(* The summary command: generateSummary (cmd/ow/summary.go): SpecCLI *)

\* Day 0 of the clock is a Monday; t.Weekday() counts from Sunday = 0.
Weekday(t) == ((t \div TicksPerDay) + 1) % DaysPerWeek

\* getMondayOfWeek without the case of Sunday: a Sunday goes forward to the
\* Monday after it.
getMondayOfWeekNoSunday(t) ==
    LET monday == AddDate(t, -(Weekday(t) - 1))
    IN (monday \div TicksPerDay) * TicksPerDay

getMondayOfWeek(t) ==
    LET currentWeekday == Weekday(t)
        daysBack == IF currentWeekday = 0 THEN 6 ELSE currentWeekday - 1
        monday == AddDate(t, -daysBack)
    IN (monday \div TicksPerDay) * TicksPerDay

RECURSIVE WeekStartsFrom(_, _)
WeekStartsFrom(current, weekEnd) ==
    IF After(current, weekEnd) THEN <<>>
    ELSE <<current>> \o WeekStartsFrom(AddDate(current, DaysPerWeek), weekEnd)

getWeekStarts(earliestSegment, latestSegment) ==
    WeekStartsFrom(getMondayOfWeek(earliestSegment), getMondayOfWeek(latestSegment))

\* All segments of the tasks, in the order the two loops visit them.
RECURSIVE AllSegments(_)
AllSegments(tasks) ==
    IF tasks = <<>> THEN <<>> ELSE Head(tasks).Segments \o AllSegments(Tail(tasks))

RECURSIVE EarliestLatestFrom(_, _, _, _)
EarliestLatestFrom(segs, i, earliest, latest) ==
    IF i > Len(segs) THEN <<earliest, latest>>
    ELSE LET segment == segs[i]
             segmentEnd == IF IsZero(segment.Finish) THEN segment.Create ELSE segment.Finish
         IN EarliestLatestFrom(segs, i + 1,
                IF IsZero(earliest) \/ Before(segment.Create, earliest)
                THEN segment.Create ELSE earliest,
                IF IsZero(latest) \/ After(segmentEnd, latest)
                THEN segmentEnd ELSE latest)

GetEarliestAndLatestSegmentTimes(tasks) ==
    EarliestLatestFrom(AllSegments(tasks), 1, ZeroTime, ZeroTime)

getTimeFilters(start, finish, earliest, latest) ==
    <<IF start # NilTime THEN start ELSE earliest,
      IF finish # NilTime THEN finish ELSE latest>>

\* getWeekStarts on any two times of the first GMaxWeeks weeks of the clock.
GMaxWeeks == 3

GTimes == 1..(GMaxWeeks * Week)

InitWeeks ==
    /\ heap = <<>>
    /\ wTasks = <<>>
    /\ now = 1
    /\ call = NoCall
    /\ ui = NoUI
    /\ procs = <<>>
    /\ locks = <<>>
    /\ file = NoStore

CallGetWeekStarts(earliest, latest) ==
    /\ call = NoCall
    /\ call' = [op |-> "getWeekStarts", earliest |-> earliest, latest |-> latest,
                ret |-> getWeekStarts(earliest, latest)]
    /\ UNCHANGED <<heap, wTasks, now, ui, procs, locks, file>>

CallGetMondayOfWeek(t) ==
    /\ call = NoCall
    /\ call' = [op |-> "getMondayOfWeek", t |-> t, ret |-> getMondayOfWeek(t)]
    /\ UNCHANGED <<heap, wTasks, now, ui, procs, locks, file>>

NextWeeks ==
    \/ \E earliest, latest \in GTimes : CallGetWeekStarts(earliest, latest)
    \/ \E t \in GTimes : CallGetMondayOfWeek(t)

SpecWeeks == InitWeeks /\ [][NextWeeks]_vars

\* The latest Monday 00:00 that is not after t (day 0 of the clock is a Monday).
LatestMondayNotAfter(t) ==
    CHOOSE m \in 0..t :
        /\ m % Week = 0
        /\ \A n \in 0..t : n % Week = 0 => n <= m

CLIFlags == {NilTime} \cup WBoundaries \cup {b + 2 : b \in WBoundaries}

\* The tasks file the command is run on.
InitCLI ==
    /\ \E n \in 0..WMaxTasks :
          \E tags \in [1..n -> {<<>>, <<TagA>>}], lens \in [1..n -> 0..WMaxSegs] :
              /\ SumSeq(lens) <= WMaxSegs
              /\ \E segs \in [1..SumSeq(lens) -> WSegments] :
                    \E kind \in (IF n = 0 THEN {"missing", "unreadable", "ok"} ELSE {"ok"}) :
                        file = [kind |-> kind, tasks |-> WatchOf(tags, lens, segs)]
    /\ heap = <<>>
    /\ wTasks = <<>>
    /\ now = 1
    /\ call = NoCall
    /\ ui = NoUI
    /\ procs = <<>>
    /\ locks = <<>>

\* generateSummary: load the watch, report nothing when it has no segment,
\* else print the weekly summaries of the weeks from the Monday of the start
\* filter to the Monday of the finish filter.  ret is what is printed.
generateSummary(includeTasks, start, finish) ==
    /\ call = NoCall
    /\ LET loaded == LoadTasksFromFile(file, <<>>)
           times == GetEarliestAndLatestSegmentTimes(loaded.tasks)
           filters == getTimeFilters(start, finish, times[1], times[2])
           weekStarts == getWeekStarts(filters[1], filters[2])
           this == [op |-> "generateSummary", includeTasks |-> includeTasks,
                    start |-> start, finish |-> finish]
       IN IF loaded.err
          THEN /\ call' = this @@ [err |-> TRUE, ret |-> <<>>]
               /\ UNCHANGED <<heap, wTasks>>
          ELSE /\ heap' = loaded.tasks
               /\ wTasks' = Addresses(loaded.tasks)
               /\ IF IsZero(times[1])
                  THEN call' = this @@ [err |-> FALSE, ret |-> <<>>]
                  ELSE \E ws \in {weekStarts}, with \in {includeTasks} :
                       \E r \in (IF with
                                 THEN GetWeeklySummaryByTagsetWithTasks(ws)
                                 ELSE GetWeeklySummaryByTagset(ws))' :
                          call' = this @@ [err |-> FALSE, ret |-> r]
    /\ UNCHANGED <<now, ui, procs, locks, file>>

NextCLI ==
    \E includeTasks \in BOOLEAN, start \in CLIFlags, finish \in CLIFlags :
        generateSummary(includeTasks, start, finish)

SpecCLI == InitCLI /\ [][NextCLI]_vars

\* The finish of a closed segment lies outside the bounds given on the
\* command line.
OutsideFlags(xi, start, finish) ==
    \/ start # NilTime /\ SegAt(xi).Finish < start
    \/ finish # NilTime /\ SegAt(xi).Finish > finish

\* C13: --start and --finish filter segments: every reported week's total is
\* made of segments of that week closed within the given bounds only, so no
\* segment whose finish lies outside the bounds is counted in any week.
C13_FlagsFilterSegments ==
    call.op = "generateSummary" =>
        \A e \in 1..Len(call.ret) :
            LET w == call.ret[e].WeekStart IN
            WeekTotal(call.ret, w) <=
                SumDurations({xi \in ClosedSegs :
                    /\ SegAt(xi).Finish > w
                    /\ SegAt(xi).Finish <= AddDate(w, DaysPerWeek)
                    /\ ~OutsideFlags(xi, call.start, call.finish)})

\* A summary run with --start that reports a week holding a segment closed
\* before the start given.
C13_Witness ==
    /\ call.op = "generateSummary"
    /\ call.start # NilTime
    /\ \E xi \in ClosedSegs : \E e \in 1..Len(call.ret) :
          /\ SegAt(xi).Finish < call.start
          /\ SegAt(xi).Finish > call.ret[e].WeekStart
          /\ SegAt(xi).Finish <= AddDate(call.ret[e].WeekStart, DaysPerWeek)

-----------------------------------------------------------------------------
(* generateSummary on timestamps that carry their locations: SpecZones *)

ZMaxWeeks == 2
ZMaxSegs == 2

\* A time.Time has a Location; the tasks file keeps each timestamp's offset
\* and loading gives the time that location back.  Offsets are in ticks east
\* of the clock's own location: that location, and half a day west of it.
Locations == {0, -1}

\* t.Weekday(), t.AddDate and time.Date(..., monday.Location()) work on the
\* wall clock of t's location.
getMondayOfWeekIn(t, loc) == getMondayOfWeek(t + loc) - loc

\* GetEarliestAndLatestSegmentTimes, the times with their locations.
RECURSIVE EarliestLatestIn(_, _, _, _)
EarliestLatestIn(segs, i, earliest, latest) ==
    IF i > Len(segs) THEN <<earliest, latest>>
    ELSE LET segment == segs[i]
             segmentEnd == IF IsZero(segment.Finish) THEN segment.Create ELSE segment.Finish
         IN EarliestLatestIn(segs, i + 1,
                IF IsZero(earliest.at) \/ Before(segment.Create, earliest.at)
                THEN [at |-> segment.Create, loc |-> segment.Loc] ELSE earliest,
                IF IsZero(latest.at) \/ After(segmentEnd, latest.at)
                THEN [at |-> segmentEnd, loc |-> segment.Loc] ELSE latest)

\* Segments of one tick of work, or open, stamped in either location after
\* the first week of the clock.
ZTimes == (Week + 1)..((ZMaxWeeks + 1) * Week)
ZSegments ==
    {[Create |-> c, Finish |-> f, Note |-> "", Loc |-> z] :
        c \in ZTimes, f \in {ZeroTime, 1}, z \in Locations}

ZStamped(seg) == IF IsZero(seg.Finish) THEN seg ELSE [seg EXCEPT !.Finish = seg.Create + 1]

InitZones ==
    /\ \E n \in 0..ZMaxSegs :
          \E segs \in [1..n -> ZSegments] :
              file = [kind |-> "ok",
                      tasks |-> <<[Name |-> "t", Tags |-> <<>>, Category |-> "work",
                                   Segments |-> [i \in 1..n |-> ZStamped(segs[i])]]>>]
    /\ heap = <<>>
    /\ wTasks = <<>>
    /\ now = 1
    /\ call = NoCall
    /\ ui = NoUI
    /\ procs = <<>>
    /\ locks = <<>>

\* generateSummary with neither --start nor --finish.
generateSummaryNoFlags(includeTasks) ==
    /\ call = NoCall
    /\ LET loaded == LoadTasksFromFile(file, <<>>)
           zero == [at |-> ZeroTime, loc |-> 0]
           times == EarliestLatestIn(AllSegments(loaded.tasks), 1, zero, zero)
           weekStarts == WeekStartsFrom(getMondayOfWeekIn(times[1].at, times[1].loc),
                                        getMondayOfWeekIn(times[2].at, times[2].loc))
           this == [op |-> "generateSummary", includeTasks |-> includeTasks,
                    start |-> NilTime, finish |-> NilTime]
       IN IF loaded.err
          THEN /\ call' = this @@ [err |-> TRUE, ret |-> <<>>]
               /\ UNCHANGED <<heap, wTasks>>
          ELSE /\ heap' = loaded.tasks
               /\ wTasks' = Addresses(loaded.tasks)
               /\ IF IsZero(times[1].at)
                  THEN call' = this @@ [err |-> FALSE, ret |-> <<>>]
                  ELSE \E ws \in {weekStarts}, with \in {includeTasks} :
                       \E r \in (IF with
                                 THEN GetWeeklySummaryByTagsetWithTasks(ws)
                                 ELSE GetWeeklySummaryByTagset(ws))' :
                          call' = this @@ [err |-> FALSE, ret |-> r]
    /\ UNCHANGED <<now, ui, procs, locks, file>>

NextZones == \E includeTasks \in BOOLEAN : generateSummaryNoFlags(includeTasks)

SpecZones == InitZones /\ [][NextZones]_vars

\* The total of all group durations of all reported weeks.
ReportedTotal(ret) ==
    SumSeq([e \in 1..Len(ret) |->
        SumSeq([g \in 1..Len(ret[e].Tagsets) |-> ret[e].Tagsets[g].Duration])])

TrackedTotal == SumSeq([i \in 1..Len(wTasks) |-> GetClosedSegmentsDuration(heap[wTasks[i]])])

\* C26: with no --start/--finish and every closed segment finishing no
\* earlier than it was created, the durations of all groups of all weeks of
\* the report add up to the closed-segment durations of all tasks.
C26_ReportAccountsForAllTime ==
    (call.op = "generateSummary" /\ ~call.err) => ReportedTotal(call.ret) = TrackedTotal

\* A report that leaves out a segment closed in the last week: its finish,
\* the latest time, is later than the end of the last week reported.
C26_Witness ==
    /\ call.op = "generateSummary"
    /\ Len(call.ret) = 1
    /\ Len(heap[1].Segments) = 2
    /\ heap[1].Segments[1].Loc = -1
    /\ heap[1].Segments[2].Loc = 0
    /\ ~IsZero(heap[1].Segments[2].Finish)
    /\ heap[1].Segments[2].Finish > AddDate(call.ret[1].WeekStart, DaysPerWeek)
    /\ ReportedTotal(call.ret) < TrackedTotal

\* With every timestamp in one location the report is complete.
C26_OneLocationComplete ==
    (/\ call.op = "generateSummary"
     /\ \A i, j \in 1..Len(heap[1].Segments) :
            heap[1].Segments[i].Loc = heap[1].Segments[j].Loc)
        => ReportedTotal(call.ret) = TrackedTotal

-----------------------------------------------------------------------------
(* GetSummaryByTagset over a loaded watch: SpecSummary *)

QMaxTasks == 2
QMaxSegs == 2
QMaxTime == 3

\* Closed segments created and finished within the horizon, and an open one.
QSegments ==
    {[Create |-> c, Finish |-> f, Note |-> ""] : c \in 1..QMaxTime, f \in 1..QMaxTime}
        \cup {[Create |-> 1, Finish |-> ZeroTime, Note |-> ""]}

\* start and finish: nil, or a time within the horizon.
QBounds == {NilTime} \cup 1..QMaxTime

InitSummary ==
    /\ \E n \in 0..QMaxTasks :
          \E tags \in [1..n -> {<<>>, <<TagA>>}], lens \in [1..n -> 0..QMaxSegs] :
              /\ SumSeq(lens) <= QMaxSegs
              /\ \E segs \in [1..SumSeq(lens) -> QSegments] :
                    /\ \A i \in 1..Len(segs) :
                          IsZero(segs[i].Finish) \/ After(segs[i].Finish, segs[i].Create)
                    /\ heap = WatchOf(tags, lens, segs)
    /\ wTasks = Addresses(heap)
    /\ now = 1
    /\ call = NoCall
    /\ ui = NoUI
    /\ procs = <<>>
    /\ locks = <<>>
    /\ file = NoStore

\* before is the memory as the call found it.
CallGetSummaryByTagset(start, finish) ==
    /\ call = NoCall
    /\ \E r \in GetSummaryByTagset(start, finish) :
          call' = [op |-> "GetSummaryByTagset", start |-> start, finish |-> finish,
                   before |-> heap, ret |-> r]
    /\ UNCHANGED <<heap, wTasks, now, ui, procs, locks, file>>

NextSummary == \E start \in QBounds, finish \in QBounds : CallGetSummaryByTagset(start, finish)

SpecSummary == InitSummary /\ [][NextSummary]_vars

\* The groups of a summary that list the task t.
GroupsOf(ret, t) == {g \in 1..Len(ret) : t \in Range(ret[g].Tasks)}

\* The task has a closed segment finishing after start and not after finish.
ClosedWithin(task, start, finish) ==
    \E i \in 1..Len(task.Segments) :
        /\ ~IsZero(task.Segments[i].Finish)
        /\ start # NilTime => task.Segments[i].Finish > start
        /\ finish # NilTime => task.Segments[i].Finish <= finish

\* C14: with a bound given, a task is in the result of GetSummaryByTagset
\* exactly when it has a segment in range; with no bound, every task of the
\* watch is in the result, a task with no closed segment adding 0 to its group.
C14_InclusionRule ==
    call.op = "GetSummaryByTagset" =>
        /\ \A x \in 1..Len(wTasks) :
              GroupsOf(call.ret, wTasks[x]) # {} <=>
                  \/ call.start = NilTime /\ call.finish = NilTime
                  \/ ClosedWithin(heap[wTasks[x]], call.start, call.finish)
        /\ (call.start = NilTime /\ call.finish = NilTime) =>
              \A g \in 1..Len(call.ret) :
                  call.ret[g].Duration =
                      SumSeq([k \in 1..Len(call.ret[g].Tasks) |->
                                 GetClosedSegmentsDuration(heap[call.ret[g].Tasks[k]])])

\* A filtered summary that lists one task and leaves another out.
C14_Witness ==
    /\ call.op = "GetSummaryByTagset"
    /\ call.start # NilTime
    /\ \E x, y \in 1..Len(wTasks) :
          /\ GroupsOf(call.ret, wTasks[x]) # {}
          /\ GroupsOf(call.ret, wTasks[y]) = {}
          /\ heap[wTasks[y]].Segments # <<>>

\* The durations of the segments of a task closed after start and not after
\* finish, added up.
DurationWithin(task, start, finish) ==
    SumSeq([i \in 1..Len(task.Segments) |->
        LET s == task.Segments[i]
        IN IF /\ ~IsZero(s.Finish)
              /\ start # NilTime => s.Finish > start
              /\ finish # NilTime => s.Finish <= finish
           THEN s.Finish - s.Create ELSE 0])

\* C20: in the result of GetSummaryByTagset(start, finish) the duration of a
\* group is the sum, over the tasks the group lists, of the durations of their
\* closed segments in range; a listed task is in one group, once; and the
\* tasks of a group are in the order the watch has them.
C20_GroupsAddUp ==
    call.op = "GetSummaryByTagset" =>
        /\ \A g \in 1..Len(call.ret) :
              LET tasks == call.ret[g].Tasks IN
              /\ call.ret[g].Duration =
                     SumSeq([k \in 1..Len(tasks) |->
                                DurationWithin(heap[tasks[k]], call.start, call.finish)])
              /\ \A k, l \in 1..Len(tasks) :
                     k < l => PosIn(wTasks, tasks[k]) < PosIn(wTasks, tasks[l])
        /\ \A t \in Range(wTasks) : Cardinality(GroupsOf(call.ret, t)) <= 1

\* A filtered summary with a group of two tasks, each adding a different
\* duration to the group's.
C20_Witness ==
    /\ call.op = "GetSummaryByTagset"
    /\ call.start # NilTime
    /\ call.finish # NilTime
    /\ \E g \in 1..Len(call.ret) :
          /\ call.ret[g].Tasks = wTasks
          /\ Len(wTasks) = 2
          /\ DurationWithin(heap[wTasks[1]], call.start, call.finish) = 1
          /\ DurationWithin(heap[wTasks[2]], call.start, call.finish) = 2
          /\ call.ret[g].Duration = 3

\* C21: GetSummaryByTagset returns its groups in descending order of total
\* duration: each group's duration is at least that of the group after it.
C21_GroupsDescending ==
    call.op = "GetSummaryByTagset" =>
        \A g \in 1..(Len(call.ret) - 1) :
            call.ret[g].Duration >= call.ret[g + 1].Duration

\* A summary of two groups of different durations, the task of the longer
\* group second in the watch.
C21_Witness ==
    /\ call.op = "GetSummaryByTagset"
    /\ Len(call.ret) = 2
    /\ call.ret[1].Duration > call.ret[2].Duration
    /\ call.ret[1].Tasks = <<wTasks[2]>>

-----------------------------------------------------------------------------
(* Tagset keys of the tasks of a loaded watch: SpecKey *)

KMaxTasks == 2
KMaxTags == 2

TagB == <<98>>

\* A tag is the empty string, "a" or "b".
KTagLists == SeqsUpTo({<<>>, TagA, TagB}, KMaxTags)

InitKey ==
    /\ heap \in SeqsUpTo(TasksOver(KTagLists, {<<>>}), KMaxTasks)
    /\ wTasks = Addresses(heap)
    /\ now = 1
    /\ call = NoCall
    /\ ui = NoUI
    /\ procs = <<>>
    /\ locks = <<>>
    /\ file = NoStore

\* Every task is in the summary taken without bounds, under its tagset key.
NextKey == CallGetSummaryByTagset(NilTime, NilTime)

SpecKey == InitKey /\ [][NextKey]_vars

\* The key is the tags in sorted order, each as often as the list has it,
\* joined with ", ".
IsSortedJoin(key, tags) ==
    \E p \in Perms(Len(tags)) :
        LET s == [i \in 1..Len(tags) |-> tags[p[i]]]
        IN /\ \A i, j \in 1..Len(tags) : i < j => ~StrLess(s[j], s[i])
           /\ key = Join(s, CommaSpace)

SameTags(a, b) ==
    /\ Len(a) = Len(b)
    /\ \E p \in Perms(Len(a)) : \A i \in 1..Len(a) : b[i] = a[p[i]]

\* The key under which the summary lists the task t.
KeyIn(ret, t) == ret[CHOOSE g \in GroupsOf(ret, t) : TRUE].Tagset

KeysAsStated ==
    \A t \in Range(wTasks) :
        LET tags == heap[t].Tags
            key == KeyIn(call.ret, t)
        IN /\ Cardinality(GroupsOf(call.ret, t)) = 1
           /\ tags = <<>> => key = NoTagsKey
           /\ (tags # <<>> /\ tags # << <<>> >>) => IsSortedJoin(key, tags)
           /\ \A u \in Range(wTasks) :
                 SameTags(heap[u].Tags, tags) => KeyIn(call.ret, u) = key
           /\ (tags = <<TagA, TagA>> /\ \E u \in Range(wTasks) : heap[u].Tags = <<TagA>>)
                 => \A u \in Range(wTasks) :
                       heap[u].Tags = <<TagA>> => KeyIn(call.ret, u) # key

-----------------------------------------------------------------------------
(* CloseSegment called twice on a loaded task: SpecClose *)

IMaxSegs == 2
IMaxTime == 3

\* Segments created, and closed if they are, by some reading of the clock.
ISegments ==
    {[Create |-> c, Finish |-> f, Note |-> ""] :
        c \in 1..IMaxTime, f \in {ZeroTime} \cup 1..IMaxTime}

InitClose ==
    /\ now \in 1..IMaxTime
    /\ \E segs \in SeqsUpTo(ISegments, IMaxSegs) :
          /\ \A i \in 1..Len(segs) :
                /\ segs[i].Create <= now
                /\ segs[i].Finish <= now
                /\ IsZero(segs[i].Finish) \/ segs[i].Create <= segs[i].Finish
          /\ heap = <<[Name |-> "t", Tags |-> <<>>, Category |-> "work", Segments |-> segs]>>
    /\ wTasks = <<1>>
    /\ call = NoCall
    /\ ui = NoUI
    /\ procs = <<>>
    /\ locks = <<>>
    /\ file = NoStore

\* The first call; once is what it left.
CallCloseSegment(t) ==
    /\ call = NoCall
    /\ \E out \in CloseSegmentOutcomes(heap[t].Segments, now) :
          /\ out[2] <= IMaxTime
          /\ heap' = [heap EXCEPT ![t].Segments = out[1]]
          /\ now' = out[2]
          /\ call' = [op |-> "CloseSegment", task |-> t, calls |-> 1, once |-> out[1]]
    /\ UNCHANGED <<wTasks, ui, procs, locks, file>>

\* Time passes between the two calls.
TickClose ==
    /\ call.op = "CloseSegment"
    /\ call.calls = 1
    /\ now < IMaxTime
    /\ now' = now + 1
    /\ UNCHANGED <<heap, wTasks, call, ui, procs, locks, file>>

\* The second call, with no other call on the task in between.
CallCloseSegmentAgain(t) ==
    /\ call.op = "CloseSegment"
    /\ call.calls = 1
    /\ call.task = t
    /\ \E out \in CloseSegmentOutcomes(heap[t].Segments, now) :
          /\ out[2] <= IMaxTime
          /\ heap' = [heap EXCEPT ![t].Segments = out[1]]
          /\ now' = out[2]
          /\ call' = [call EXCEPT !.calls = 2]
    /\ UNCHANGED <<wTasks, ui, procs, locks, file>>

NextClose ==
    \/ \E t \in Range(wTasks) : CallCloseSegment(t)
    \/ TickClose
    \/ \E t \in Range(wTasks) : CallCloseSegmentAgain(t)

SpecClose == InitClose /\ [][NextClose]_vars

\* C24: CloseSegment is idempotent: after a second call in a row every segment
\* has the finish the first call left it with.
C24_CloseSegmentIdempotent ==
    (call.op = "CloseSegment" /\ call.calls = 2) =>
        heap[call.task].Segments = call.once

\* The second call made later than the first, which had closed two segments.
C24_Witness ==
    /\ call.op = "CloseSegment"
    /\ call.calls = 2
    /\ Len(call.once) = 2
    /\ \A i \in 1..2 : call.once[i].Finish < now

-----------------------------------------------------------------------------
(* isSegmentInRange on the segments of one loaded task: SpecSegment *)

SMaxTime == 3
SMaxSegs == 1

\* Any create and finish, a finish before its create included.
SSegments ==
    {[Create |-> c, Finish |-> f, Note |-> ""] : c \in 1..SMaxTime, f \in 0..SMaxTime}

SBounds == {NilTime} \cup 0..SMaxTime

InitSegment ==
    /\ heap \in {<<t>> : t \in TasksOver({<<>>}, SeqsUpTo(SSegments, SMaxSegs))}
    /\ wTasks = Addresses(heap)
    /\ now = 1
    /\ call = NoCall
    /\ ui = NoUI
    /\ procs = <<>>
    /\ locks = <<>>
    /\ file = NoStore

CallIsSegmentInRange(t, i, start, finish) ==
    /\ call' = [op |-> "isSegmentInRange", segment |-> heap[t].Segments[i],
                start |-> start, finish |-> finish,
                ret |-> isSegmentInRange(heap[t].Segments[i], start, finish)]
    /\ UNCHANGED <<heap, wTasks, now, ui, procs, locks, file>>

NextSegment ==
    \E t \in Range(wTasks) : \E i \in 1..Len(heap[t].Segments) :
        \E start \in SBounds, finish \in SBounds : CallIsSegmentInRange(t, i, start, finish)

SpecSegment == InitSegment /\ [][NextSegment]_vars

\* C1: isSegmentInRange is true exactly when the segment is closed, start is
\* absent or the segment finished strictly after it, and the finish bound is
\* absent or the segment finished at or before it.
C1_InRangeIff ==
    call.op = "isSegmentInRange" =>
        (call.ret <=>
            /\ call.segment.Finish # ZeroTime
            /\ (call.start = NilTime \/ call.segment.Finish > call.start)
            /\ (call.finish = NilTime \/ call.segment.Finish <= call.finish))

\* A closed segment finishing exactly at both bounds: the start excludes it.
C1_Witness ==
    /\ call.op = "isSegmentInRange"
    /\ call.segment.Finish # ZeroTime
    /\ call.start = call.segment.Finish
    /\ call.finish = call.segment.Finish
    /\ call.ret = FALSE

-----------------------------------------------------------------------------
(* Category filters over a loaded watch: SpecCategory *)

CMaxTasks == 2

\* The text of the category cell of the table.
createCategoryCell(taskItem) ==
    LET category == GetCategory(taskItem)
    IN IF category = "" THEN "work" ELSE category

\* The category a loaded task can have: none written in the file, or one of
\* the three the program sets.
CCategories == {"", "work", "completed", "backlog"}

CTasks ==
    {[Name |-> "t", Tags |-> <<>>, Category |-> c, Segments |-> sg] :
        c \in CCategories,
        sg \in {<<>>, <<[Create |-> 1, Finish |-> ZeroTime, Note |-> ""]>>}}

InitCategory ==
    /\ heap \in SeqsUpTo(CTasks, CMaxTasks)
    /\ wTasks = Addresses(heap)
    /\ now = 1
    /\ call = NoCall
    /\ ui = NoUI
    /\ procs = <<>>
    /\ locks = <<>>
    /\ file = NoStore

CallGetTasksByCategory(category) ==
    /\ call = NoCall
    /\ \E r \in GetTasksByCategory(heap, wTasks, category) :
          call' = [op |-> "GetTasksByCategory", category |-> category, ret |-> r]
    /\ UNCHANGED <<heap, wTasks, now, ui, procs, locks, file>>

CallGetTasksSortedByActivityWithFilter(categoryFilter) ==
    /\ call = NoCall
    /\ \E r \in GetTasksSortedByActivityWithFilter(heap, wTasks, categoryFilter) :
          call' = [op |-> "GetTasksSortedByActivityWithFilter",
                   category |-> categoryFilter, ret |-> r]
    /\ UNCHANGED <<heap, wTasks, now, ui, procs, locks, file>>

NextCategory ==
    \/ \E category \in CCategories : CallGetTasksByCategory(category)
    \/ \E categoryFilter \in CCategories :
          CallGetTasksSortedByActivityWithFilter(categoryFilter)

SpecCategory == InitCategory /\ [][NextCategory]_vars

CategoryOps == {"GetTasksByCategory", "GetTasksSortedByActivityWithFilter"}

\* C18: a task whose category is unset or empty counts as "work": the "work"
\* filter returns every task the table shows as "work", and the filters
\* "work", "completed" and "backlog" return every task exactly once between
\* them.
C18_DefaultCategoryIsWork ==
    (call.op \in CategoryOps /\ call.category \in {"work", "completed", "backlog"}) =>
        \A t \in Range(wTasks) :
            /\ (call.category = "work" /\ createCategoryCell(heap[t]) = "work")
                   => t \in Range(call.ret)
            /\ t \in Range(call.ret) =>
                   \A c \in {"work", "completed", "backlog"} \ {call.category} :
                       \A r \in GetTasksByCategory(heap, wTasks, c) : t \notin Range(r)
            /\ t \notin Range(call.ret) =>
                   \E c \in {"work", "completed", "backlog"} \ {call.category} :
                       \A r \in GetTasksByCategory(heap, wTasks, c) : t \in Range(r)

\* The "work" filter applied to a watch holding a task with no category, which
\* the table shows as "work": the task is not returned.
C18_Witness ==
    /\ call.op = "GetTasksSortedByActivityWithFilter"
    /\ call.category = "work"
    /\ \E t \in Range(wTasks) :
          /\ heap[t].Category = ""
          /\ createCategoryCell(heap[t]) = "work"
          /\ t \notin Range(call.ret)

-----------------------------------------------------------------------------
(* The activity sort over a loaded watch: SpecSort *)

SortMaxTasks == 3
SortMaxTime == 2

\* A task's last activity is decided by its last segment: none, an open one,
\* or a closed one.
SortSegLists ==
    {<<>>}
        \cup {<<[Create |-> c, Finish |-> ZeroTime, Note |-> ""]>> : c \in 1..SortMaxTime}
        \cup {<<[Create |-> 1, Finish |-> f, Note |-> ""]>> : f \in 1..SortMaxTime}

InitSort ==
    /\ heap \in SeqsUpTo(TasksOver({<<>>}, SortSegLists), SortMaxTasks)
    /\ wTasks = Addresses(heap)
    /\ now = 1
    /\ call = NoCall
    /\ ui = NoUI
    /\ procs = <<>>
    /\ locks = <<>>
    /\ file = NoStore

CallGetTasksSortedByActivity ==
    /\ \E r \in GetTasksSortedByActivity(heap, wTasks) :
          call' = [op |-> "GetTasksSortedByActivity", tasks |-> wTasks, ret |-> r]
    /\ UNCHANGED <<heap, wTasks, now, ui, procs, locks, file>>

NextSort == CallGetTasksSortedByActivity

SpecSort == InitSort /\ [][NextSort]_vars

\* C10: the sorted list is a permutation of the input, the input is left as it
\* was, every task with activity comes before every task without, and of two
\* tasks with activity the one with the strictly later timestamp comes first.
C10_SortByActivity ==
    call.op = "GetTasksSortedByActivity" =>
        LET in == call.tasks
            out == call.ret
            n == Len(in)
            la(i) == GetLastActivity(heap[out[i]])
        IN /\ Len(out) = n
           /\ \E p \in Perms(n) : \A i \in 1..n : out[i] = in[p[i]]
           /\ wTasks = in
           /\ \A i, j \in 1..n :
                 /\ (~IsZero(la(i)) /\ IsZero(la(j))) => i < j
                 /\ (~IsZero(la(i)) /\ ~IsZero(la(j)) /\ la(i) > la(j)) => i < j

C10_Witness ==
    /\ call.op = "GetTasksSortedByActivity"
    /\ Len(call.tasks) >= 3
    /\ call.ret # call.tasks
    /\ IsZero(GetLastActivity(heap[call.tasks[1]]))
    /\ \E i, j \in 1..Len(call.ret) :
          /\ i < j
          /\ ~IsZero(GetLastActivity(heap[call.ret[j]]))
          /\ GetLastActivity(heap[call.ret[i]]) > GetLastActivity(heap[call.ret[j]])

\* C11: the activity sort is stable: two tasks without activity, and two
\* tasks with the same last-activity timestamp, come out in the relative
\* order they went in.
C11_SortIsStable ==
    call.op = "GetTasksSortedByActivity" =>
        \A i, j \in 1..Len(call.ret) :
            (i < j /\ GetLastActivity(heap[call.ret[i]]) = GetLastActivity(heap[call.ret[j]]))
                => PosIn(call.tasks, call.ret[i]) < PosIn(call.tasks, call.ret[j])

\* Two tasks without segments returned in the opposite order.
C11_Witness ==
    /\ call.op = "GetTasksSortedByActivity"
    /\ \E i, j \in 1..Len(call.ret) :
          /\ i < j
          /\ heap[call.ret[i]].Segments = <<>>
          /\ heap[call.ret[j]].Segments = <<>>
          /\ PosIn(call.tasks, call.ret[i]) > PosIn(call.tasks, call.ret[j])

-----------------------------------------------------------------------------
(* The terminal front end (cmd/ow/ui.go): SpecTUI.  One step is one key    *)
(* handler or one button callback, run to its end on tview's event loop,   *)
(* the save and the refresh it ends with included.                         *)

TMaxTasks == 1
TMaxSegs == 2
TMaxTime == 2

\* strings.SplitSeq(s, ","): the pieces of s between the commas.
RECURSIVE SplitComma(_, _)
SplitComma(str, piece) ==
    IF str = <<>> THEN <<piece>>
    ELSE IF Head(str) = 44 THEN <<piece>> \o SplitComma(Tail(str), <<>>)
    ELSE SplitComma(Tail(str), Append(piece, Head(str)))

\* strings.TrimSpace, for the blank character.
RECURSIVE TrimLeft(_)
TrimLeft(str) == IF str # <<>> /\ Head(str) = 32 THEN TrimLeft(Tail(str)) ELSE str

RECURSIVE TrimRight(_)
TrimRight(str) ==
    IF str # <<>> /\ Last(str) = 32 THEN TrimRight(SubSeq(str, 1, Len(str) - 1)) ELSE str

TrimSpace(str) == TrimRight(TrimLeft(str))

parseTagsFromString(tags) ==
    IF tags = <<>> THEN <<>>
    ELSE LET pieces == SplitComma(tags, <<>>)
         IN [i \in 1..Len(pieces) |-> TrimSpace(pieces[i])]

\* C30: the tagset grouping keeps different tag combinations apart: two
\* tasks are in the same group only if their tag lists are equal up to
\* order, and a task whose tag list is not empty is never in the "(no tags)"
\* group.
C30_GroupsSeparateTagsets ==
    call.op = "GetSummaryByTagset" =>
        \A t \in Range(wTasks) :
            /\ \A u \in Range(wTasks) :
                  KeyIn(call.ret, u) = KeyIn(call.ret, t) => SameTags(heap[u].Tags, heap[t].Tags)
            /\ heap[t].Tags # <<>> => KeyIn(call.ret, t) # NoTagsKey

\* A task whose tags the TUI parsed from a blank is listed under "(no tags)",
\* in one group with a task that has no tags.
C30_Witness ==
    /\ call.op = "GetSummaryByTagset"
    /\ Len(wTasks) = 2
    /\ heap[wTasks[1]].Tags = parseTagsFromString(<<32>>)
    /\ heap[wTasks[1]].Tags # <<>>
    /\ heap[wTasks[2]].Tags = <<>>
    /\ Len(call.ret) = 1
    /\ call.ret[1].Tagset = NoTagsKey
    /\ call.ret[1].Tasks = wTasks

categoryFilters == <<"", "completed", "work", "backlog">>

NoModal == [kind |-> "none"]

NewAppUI ==
    [started |-> FALSE, rowToTaskIndex |-> <<>>, tableRows |-> <<>>, row |-> 0,
     filterIndex |-> 0, categoryFilter |-> "", modal |-> NoModal]

\* getTaskIndex: the task index of a table row (row 0 is the header), or -1.
getTaskIndex(u, tableRow) ==
    LET dataRow == tableRow - 1
    IN IF dataRow >= 0 /\ dataRow < Len(u.rowToTaskIndex)
       THEN u.rowToTaskIndex[dataRow + 1]
       ELSE -1

\* getSelectedTask: ok, and the address of the selected task.
HasSelectedTask(u, w) ==
    LET currentIndex == getTaskIndex(u, u.row)
    IN ~(currentIndex < 0 \/ currentIndex >= Len(w))

SelectedTask(u, w) == w[getTaskIndex(u, u.row) + 1]

\* The check both "start segment" handlers make before AddSegment: left out.
MayStartSegmentUnchecked(task) == TRUE

\* The check both "start segment" handlers make before AddSegment.
MayStartSegment(task) == ~HasUnclosedSegment(task)

\* NewApp: load the tasks; on an error start with an empty watch.
NewAppTasks(f) ==
    LET loaded == LoadTasksFromFile(f, <<>>)
    IN IF loaded.err THEN <<>> ELSE loaded.tasks

\* saveAndRefresh on the memory h and task list w the handler leaves, from
\* the App state u: the App states it can end in.  A failed save shows the
\* error dialog and returns before the table and the row mapping are rebuilt.
saveAndRefresh(saved, h, w, u) ==
    IF ~saved THEN {[u EXCEPT !.modal = [kind |-> "error"]]}
    ELSE {[u EXCEPT !.tableRows = sortedTasks,
                    !.rowToTaskIndex =
                        [i \in 1..Len(sortedTasks) |-> GetTaskIndex(w, sortedTasks[i])],
                    !.row = IF Len(sortedTasks) > 0 THEN 1 ELSE @] :
            sortedTasks \in GetTasksSortedByActivityWithFilter(h, w, u.categoryFilter)}

\* Watches NewApp may load: at most one segment open in every task.
TSegLists ==
    {<<>>, <<[Create |-> 1, Finish |-> ZeroTime, Note |-> ""]>>,
     <<[Create |-> 1, Finish |-> 1, Note |-> ""]>>}
TWatches ==
    {w \in SeqsUpTo({[Name |-> "t", Tags |-> <<>>, Category |-> c, Segments |-> sg] :
                        c \in {"", "completed"}, sg \in TSegLists}, TMaxTasks) :
        SegCount(w) <= TMaxSegs}

TNames == {"", "t"}
TTagInputs == {<<>>}
TSegTotal(h) == SumSeq([i \in 1..Len(h) |-> Len(h[i].Segments)])

\* Go's garbage collector: a task that the watch no longer holds, with the
\* dialog that removed it closed, is referenced by nothing; its memory is
\* cleared and its address is not used again.
Collected == [Name |-> "", Tags |-> <<>>, Category |-> "", Segments |-> <<>>]
Collect(h, w) == [a \in 1..Len(h) |-> IF a \in Range(w) THEN h[a] ELSE Collected]

\* The files NewApp may find.
TFiles ==
    {[kind |-> "missing", tasks |-> <<>>], [kind |-> "unreadable", tasks |-> <<>>]}
        \cup {[kind |-> "ok", tasks |-> w] : w \in TWatches}

\* The state NewApp returns.
InitTUI ==
    /\ file \in TFiles
    /\ heap = NewAppTasks(file)
    /\ wTasks = Addresses(heap)
    /\ now = 1
    /\ call = NoCall
    /\ ui = NewAppUI
    /\ procs = <<>>
    /\ locks = <<>>

AtTable == ui.started /\ ui.modal = NoModal

\* Run: the initial saveAndRefresh.
Run(saved) ==
    /\ ~ui.started
    /\ ui' \in saveAndRefresh(saved, heap, wTasks, [ui EXCEPT !.started = TRUE])
    /\ file' = SaveTasksToFile(saved, heap, wTasks, file)
    /\ call' = [op |-> "Run", before |-> file]
    /\ UNCHANGED <<heap, wTasks, now, procs, locks>>

TickTUI ==
    /\ now < TMaxTime
    /\ now' = now + 1
    /\ call' = NoCall
    /\ UNCHANGED <<heap, wTasks, ui, procs, locks, file>>

\* The arrow keys: any data row of the table.
Navigate(r) ==
    /\ AtTable
    /\ r \in 1..Len(ui.tableRows)
    /\ ui' = [ui EXCEPT !.row = r]
    /\ call' = NoCall
    /\ UNCHANGED <<heap, wTasks, now, procs, locks, file>>

\* Keys that open a form or dialog.
showNewTaskForm ==
    /\ AtTable
    /\ ui' = [ui EXCEPT !.modal = [kind |-> "newTask"]]
    /\ call' = NoCall
    /\ UNCHANGED <<heap, wTasks, now, procs, locks, file>>

OpenForSelected(kind) ==
    /\ AtTable
    /\ IF HasSelectedTask(ui, wTasks)
       THEN ui' = [ui EXCEPT !.modal = [kind |-> kind, task |-> SelectedTask(ui, wTasks)]]
       ELSE UNCHANGED ui
    /\ call' = NoCall
    /\ UNCHANGED <<heap, wTasks, now, procs, locks, file>>

showModifyTaskForm == OpenForSelected("showModifyTaskForm")
showNewSegmentWithNoteForm == OpenForSelected("showNewSegmentWithNoteForm")
showDeleteConfirmation == OpenForSelected("showDeleteConfirmation")

\* Cancel, Back, Escape, and the error dialog's OK: back to the table.
CloseModal ==
    /\ ui.started
    /\ ui.modal # NoModal
    /\ ui' = [ui EXCEPT !.modal = NoModal]
    /\ call' = NoCall
    /\ UNCHANGED <<heap, wTasks, now, procs, locks, file>>

\* New Task form, Create.  The form's SetRoot(mainLayout) comes after
\* saveAndRefresh, so it also replaces an error dialog.
NewTaskCreate(name, tags, saved) ==
    /\ ui.modal.kind = "newTask"
    /\ IF name = "" THEN UNCHANGED <<heap, wTasks, ui, file>>
       ELSE /\ Len(heap) < TMaxTasks
            /\ heap' = Append(heap, NewTask(name, parseTagsFromString(tags), "work"))
            /\ wTasks' = Append(wTasks, Len(heap) + 1)
            /\ \E u \in saveAndRefresh(saved, heap', wTasks', ui) :
                  ui' = [u EXCEPT !.modal = NoModal]
            /\ file' = SaveTasksToFile(saved, heap', wTasks', file)
    /\ call' = NoCall
    /\ UNCHANGED <<now, procs, locks>>

\* Modify Task form, OK.
ModifyTaskOK(name, tags, saved) ==
    /\ ui.modal.kind = "showModifyTaskForm"
    /\ IF name = "" THEN UNCHANGED <<heap, ui, file>>
       ELSE /\ heap' = [heap EXCEPT ![ui.modal.task].Name = name,
                                    ![ui.modal.task].Tags = parseTagsFromString(tags)]
            /\ \E u \in saveAndRefresh(saved, heap', wTasks, ui) :
                  ui' = [u EXCEPT !.modal = NoModal]
            /\ file' = SaveTasksToFile(saved, heap', wTasks, file)
    /\ call' = NoCall
    /\ UNCHANGED <<wTasks, now, procs, locks>>

\* New Segment form, Create.
NewSegmentCreate(note, saved) ==
    /\ ui.modal.kind = "showNewSegmentWithNoteForm"
    /\ LET selectedTask == ui.modal.task IN
       IF ~MayStartSegment(heap[selectedTask])
       THEN /\ ui' = [ui EXCEPT !.modal = NoModal]
            /\ call' = [op |-> "NewSegmentCreate", refused |-> TRUE]
            /\ UNCHANGED <<heap, file>>
       ELSE /\ TSegTotal(heap) < TMaxSegs
            /\ heap' = [heap EXCEPT ![selectedTask].Segments = AddSegmentTo(@, note, now)]
            /\ \E u \in saveAndRefresh(saved, heap', wTasks, ui) :
                  ui' = [u EXCEPT !.modal = NoModal]
            /\ file' = SaveTasksToFile(saved, heap', wTasks, file)
            /\ call' = [op |-> "NewSegmentCreate", refused |-> FALSE]
    /\ UNCHANGED <<wTasks, now, procs, locks>>

createSegmentWithoutNote(saved) ==
    /\ AtTable
    /\ IF ~HasSelectedTask(ui, wTasks)
       THEN /\ call' = [op |-> "createSegmentWithoutNote", refused |-> FALSE]
            /\ UNCHANGED <<heap, ui, file>>
       ELSE LET selectedTask == SelectedTask(ui, wTasks) IN
            IF ~MayStartSegment(heap[selectedTask])
            THEN /\ call' = [op |-> "createSegmentWithoutNote", refused |-> TRUE]
                 /\ UNCHANGED <<heap, ui, file>>
            ELSE /\ TSegTotal(heap) < TMaxSegs
                 /\ heap' = [heap EXCEPT ![selectedTask].Segments = AddSegmentTo(@, "", now)]
                 /\ ui' \in saveAndRefresh(saved, heap', wTasks, ui)
                 /\ file' = SaveTasksToFile(saved, heap', wTasks, file)
                 /\ call' = [op |-> "createSegmentWithoutNote", refused |-> FALSE]
    /\ UNCHANGED <<wTasks, now, procs, locks>>

endSegment(saved) ==
    /\ AtTable
    /\ IF ~HasSelectedTask(ui, wTasks)
       THEN UNCHANGED <<heap, now, ui, file>>
       ELSE LET selectedTask == SelectedTask(ui, wTasks) IN
            \E out \in CloseSegmentOutcomes(heap[selectedTask].Segments, now) :
                /\ out[2] <= TMaxTime
                /\ heap' = [heap EXCEPT ![selectedTask].Segments = out[1]]
                /\ now' = out[2]
                /\ ui' \in saveAndRefresh(saved, heap', wTasks, ui)
                /\ file' = SaveTasksToFile(saved, heap', wTasks, file)
    /\ call' = NoCall
    /\ UNCHANGED <<wTasks, procs, locks>>

changeTaskCategory(category, saved) ==
    /\ AtTable
    /\ IF ~HasSelectedTask(ui, wTasks)
       THEN UNCHANGED <<heap, ui, file>>
       ELSE /\ heap' = [heap EXCEPT ![SelectedTask(ui, wTasks)].Category = category]
            /\ ui' \in saveAndRefresh(saved, heap', wTasks, ui)
            /\ file' = SaveTasksToFile(saved, heap', wTasks, file)
    /\ call' = NoCall
    /\ UNCHANGED <<wTasks, now, procs, locks>>

cycleCategoryFilter(saved) ==
    /\ AtTable
    /\ LET filterIndex == (ui.filterIndex + 1) % Len(categoryFilters)
       IN ui' \in saveAndRefresh(saved, heap, wTasks,
                     [ui EXCEPT !.filterIndex = filterIndex,
                                !.categoryFilter = categoryFilters[filterIndex + 1]])
    /\ file' = SaveTasksToFile(saved, heap, wTasks, file)
    /\ call' = NoCall
    /\ UNCHANGED <<heap, wTasks, now, procs, locks>>

\* The delete dialog's Delete button: deleteSelectedTask, then back to the table.
deleteSelectedTask(saved) ==
    /\ ui.modal.kind = "showDeleteConfirmation"
    /\ LET currentIndex == getTaskIndex(ui, ui.row) IN
       IF currentIndex < 0 \/ currentIndex >= Len(wTasks)
       THEN /\ ui' = [ui EXCEPT !.modal = NoModal]
            /\ UNCHANGED <<heap, wTasks, file>>
       ELSE /\ wTasks' = SubSeq(wTasks, 1, currentIndex)
                            \o SubSeq(wTasks, currentIndex + 2, Len(wTasks))
            /\ heap' = Collect(heap, wTasks')
            /\ \E u \in saveAndRefresh(saved, heap', wTasks', ui) :
                  ui' = [u EXCEPT !.modal = NoModal]
            /\ file' = SaveTasksToFile(saved, heap', wTasks', file)
    /\ call' = NoCall
    /\ UNCHANGED <<now, procs, locks>>

NextTUI ==
    \/ \E saved \in BOOLEAN : Run(saved)
    \/ TickTUI
    \/ \E r \in 1..TMaxTasks : Navigate(r)
    \/ showNewTaskForm
    \/ showModifyTaskForm
    \/ showNewSegmentWithNoteForm
    \/ showDeleteConfirmation
    \/ CloseModal
    \/ \E n \in TNames, tg \in TTagInputs, saved \in BOOLEAN : NewTaskCreate(n, tg, saved)
    \/ \E n \in TNames, tg \in TTagInputs, saved \in BOOLEAN : ModifyTaskOK(n, tg, saved)
    \/ \E saved \in BOOLEAN : NewSegmentCreate("", saved)
    \/ \E saved \in BOOLEAN : createSegmentWithoutNote(saved)
    \/ \E saved \in BOOLEAN : endSegment(saved)
    \/ \E c \in {"completed", "work"}, saved \in BOOLEAN : changeTaskCategory(c, saved)
    \/ \E saved \in BOOLEAN : cycleCategoryFilter(saved)
    \/ \E saved \in BOOLEAN : deleteSelectedTask(saved)

SpecTUI == InitTUI /\ [][NextTUI]_vars

\* C6: starting from a watch in which every task has at most one open
\* segment, no sequence of TUI actions leaves a task with two or more open
\* segments.
C6_OneOpenSegmentPerTask ==
    \A t \in 1..Len(heap) : Cardinality(OpenIdx(heap[t].Segments)) <= 1

\* "Start" pressed on a task that is being worked on: nothing is added.
C6_Witness ==
    /\ call.op \in {"createSegmentWithoutNote", "NewSegmentCreate"}
    /\ call.refused
    /\ \E t \in 1..Len(heap) : Cardinality(OpenIdx(heap[t].Segments)) = 1

\* C12: a tasks file that could not be parsed is not replaced: when the
\* program starts on such a file, the file is still what it was once Run has
\* made its first save, and no empty list has been written in its place.
C12_UnparsedStoreIsKept ==
    (call.op = "Run" /\ call.before.kind = "unreadable") => file = call.before

\* The program was started on a file it could not parse and the file now
\* holds the empty list the program went on with.
C12_Witness ==
    /\ call.op = "Run"
    /\ call.before.kind = "unreadable"
    /\ wTasks = <<>>
    /\ file = [kind |-> "ok", tasks |-> <<>>]

\* C25: after every TUI action, whether its save succeeded or failed, each
\* displayed data row maps to a valid index into watch.Tasks, and the task
\* at that index is the task rendered in the row.
C25_RowMappingConsistent ==
    /\ Len(ui.rowToTaskIndex) = Len(ui.tableRows)
    /\ \A i \in 1..Len(ui.tableRows) :
          /\ ui.rowToTaskIndex[i] >= 0
          /\ ui.rowToTaskIndex[i] < Len(wTasks)
          /\ wTasks[ui.rowToTaskIndex[i] + 1] = ui.tableRows[i]

\* A task was deleted and the save failed: the table still shows its row,
\* mapped to index 0 of a list that is now empty.
C25_Witness ==
    /\ ui.started
    /\ ui.modal = NoModal
    /\ Len(ui.tableRows) = 1
    /\ ui.rowToTaskIndex = <<0>>
    /\ wTasks = <<>>

-----------------------------------------------------------------------------
(* The background updater beside the UI thread: SpecUpdater *)

\* The goroutine startBackgroundUpdater starts, waiting for its ticker.
AtTicker == [pc |-> "ticker", row |-> 0, hdr |-> <<>>, currentIndex |-> -1, tasksHdr |-> <<>>]

\* NewApp has started the goroutine; Run has not been called yet.
InitUpdater ==
    /\ file \in TFiles
    /\ heap = NewAppTasks(file)
    /\ wTasks = Addresses(heap)
    /\ now = 1
    /\ call = NoCall
    /\ ui = NewAppUI
    /\ procs = <<AtTicker>>
    /\ locks = <<>>

Crashed == \E p \in 1..Len(procs) : procs[p].pc = "panic"

\* A handler of the UI thread; a panic in the goroutine ends the program.
UIThread == ~Crashed /\ NextTUI

\* for range ticker.C: row, _ := a.table.GetSelection()
UpdaterGetSelection(p) ==
    /\ procs[p].pc = "ticker"
    /\ procs' = [procs EXCEPT ![p].row = ui.row, ![p].pc = "getTaskIndex"]
    /\ UNCHANGED <<heap, wTasks, now, call, ui, locks, file>>

\* getTaskIndex: dataRow >= 0 && dataRow < len(a.rowToTaskIndex), which
\* loads the slice a.rowToTaskIndex holds now.
UpdaterCheckRow(p) ==
    /\ procs[p].pc = "getTaskIndex"
    /\ LET dataRow == procs[p].row - 1 IN
       IF dataRow >= 0 /\ dataRow < Len(ui.rowToTaskIndex)
       THEN procs' = [procs EXCEPT ![p].hdr = ui.rowToTaskIndex, ![p].pc = "index"]
       ELSE procs' = [procs EXCEPT ![p].currentIndex = -1, ![p].pc = "checkTasks"]
    /\ UNCHANGED <<heap, wTasks, now, call, ui, locks, file>>

\* getTaskIndex: return a.rowToTaskIndex[dataRow].  No lock orders this read
\* and the UI thread's writes: the build may index the slice it loaded for
\* the length or load the field again.
UpdaterIndexRow(p) ==
    /\ procs[p].pc = "index"
    /\ \E s \in {procs[p].hdr, ui.rowToTaskIndex} :
          LET dataRow == procs[p].row - 1 IN
          IF dataRow < Len(s)
          THEN procs' = [procs EXCEPT ![p].currentIndex = s[dataRow + 1],
                                      ![p].hdr = <<>>, ![p].pc = "checkTasks"]
          ELSE procs' = [procs EXCEPT ![p].pc = "panic"]
    /\ UNCHANGED <<heap, wTasks, now, call, ui, locks, file>>

\* if currentIndex >= 0 && currentIndex < len(a.watch.Tasks)
UpdaterCheckTasks(p) ==
    /\ procs[p].pc = "checkTasks"
    /\ IF procs[p].currentIndex >= 0 /\ procs[p].currentIndex < Len(wTasks)
       THEN procs' = [procs EXCEPT ![p].tasksHdr = wTasks, ![p].pc = "indexTasks"]
       ELSE procs' = [procs EXCEPT ![p] = AtTicker]
    /\ UNCHANGED <<heap, wTasks, now, call, ui, locks, file>>

\* t := a.watch.Tasks[currentIndex], read without w.mu; then t.IsActive()
\* under the task's read lock and QueueUpdateDraw, which hands the redraw to
\* the UI thread and writes none of the App's fields.
UpdaterIndexTasks(p) ==
    /\ procs[p].pc = "indexTasks"
    /\ \E s \in {procs[p].tasksHdr, wTasks} :
          IF procs[p].currentIndex < Len(s)
          THEN procs' = [procs EXCEPT ![p] = AtTicker]
          ELSE procs' = [procs EXCEPT ![p].pc = "panic"]
    /\ UNCHANGED <<heap, wTasks, now, call, ui, locks, file>>

NextUpdater ==
    \/ UIThread
    \/ \E p \in {1} : UpdaterGetSelection(p)
    \/ \E p \in {1} : UpdaterCheckRow(p)
    \/ \E p \in {1} : UpdaterIndexRow(p)
    \/ \E p \in {1} : UpdaterCheckTasks(p)
    \/ \E p \in {1} : UpdaterIndexTasks(p)

SpecUpdater == InitUpdater /\ [][NextUpdater]_vars

\* C27: the background goroutine never indexes watch.Tasks or rowToTaskIndex
\* out of range, and the UI thread never writes either of them between the
\* goroutine's reading of its length and its reading of the element.
C27_UpdaterSafe ==
    \A p \in 1..Len(procs) :
        /\ procs[p].pc # "panic"
        /\ procs[p].pc = "index" => procs[p].hdr = ui.rowToTaskIndex
        /\ procs[p].pc = "indexTasks" => procs[p].tasksHdr = wTasks

\* The goroutine found index 0 within watch.Tasks, the UI thread deleted the
\* only task, and the goroutine's a.watch.Tasks[0] panicked.
C27_Witness ==
    /\ procs[1].pc = "panic"
    /\ procs[1].currentIndex = 0
    /\ procs[1].tasksHdr # <<>>
    /\ wTasks = <<>>

-----------------------------------------------------------------------------
(* Concurrent callers: goroutines that each make one call on a shared      *)
(* watch.  A call is a sequence of steps: acquiring or releasing a         *)
(* sync.RWMutex, or one read or write of Watch.Tasks or of a task's        *)
(* fields.  procs[p] is goroutine p's call and its position in it;         *)
(* locks.w is Watch.mu and locks.t[a] is the mu of the task at address a.  *)

NProcs == 3

Unlocked == [writer |-> 0, readers |-> {}, waiting |-> {}]

\* A Lock that does not wait for the current holders.
CanLockNoExclusion(mu) == TRUE

\* sync.RWMutex: Lock waits until no goroutine holds the mutex in either
\* mode, RLock until no goroutine holds it for writing and none is waiting
\* in Lock (a call of Lock keeps later readers out until it has had its
\* turn).
CanLock(mu) == mu.writer = 0 /\ mu.readers = {}
CanRLock(mu) == mu.writer = 0 /\ mu.waiting = {}

\* The call of Lock, and its return once the mutex is free.
LockCalled(mu, p) == [mu EXCEPT !.waiting = @ \cup {p}]
Locked(mu, p) == [mu EXCEPT !.writer = p, !.waiting = @ \ {p}]

\* An RUnlock that is never made.
RUnlockedNever(mu, p) == mu

RLocked(mu, p) == [mu EXCEPT !.readers = @ \cup {p}]
RUnlocked(mu, p) == [mu EXCEPT !.readers = @ \ {p}]

\* What LoadTasksFromFile can find at the path: no file, a file that cannot
\* be read or parsed, or a list of tasks.
FileTask == [Name |-> "f", Tags |-> <<>>, Category |-> "work", Segments |-> <<>>]
Files ==
    {[kind |-> "missing", tasks |-> <<>>],
     [kind |-> "unreadable", tasks |-> <<>>],
     [kind |-> "ok", tasks |-> <<FileTask>>]}
NoFile == [kind |-> "none", tasks |-> <<>>]

\* The calls a goroutine can make.  Task methods are called on the task at
\* address 1, the one task every goroutine can hold a pointer to.
Calls ==
    <<[op |-> "AddTask", file |-> NoFile],
      [op |-> "AddSegment", file |-> NoFile],
      [op |-> "CloseSegment", file |-> NoFile],
      [op |-> "SetCategory", file |-> NoFile],
      [op |-> "GetTaskIndex", file |-> NoFile],
      [op |-> "GetSummaryByTagset", file |-> NoFile],
      [op |-> "GetTasksSortedByActivity", file |-> NoFile],
      [op |-> "GetTasksByCategory", file |-> NoFile],
      [op |-> "SaveTasksToFile", file |-> NoFile],
      [op |-> "LoadTasksFromFile", file |-> [kind |-> "missing", tasks |-> <<>>]],
      [op |-> "LoadTasksFromFile", file |-> [kind |-> "unreadable", tasks |-> <<>>]],
      [op |-> "LoadTasksFromFile", file |-> [kind |-> "ok", tasks |-> <<FileTask>>]]>>

Started(c) ==
    [op |-> c.op, file |-> c.file, pc |-> "start", arg |-> 1,
     tasks |-> <<>>, i |-> 0, segs |-> <<>>, stamp |-> ZeroTime, filtered |-> <<>>]

\* One task with work in progress, and NProcs goroutines about to make one
\* call each.  Goroutines are interchangeable, so the calls are listed in
\* the order of Calls.
InitConc ==
    /\ heap = <<[NewTask("t", <<>>, "work") EXCEPT !.Segments = <<NewSegment("", 1)>>]>>
    /\ wTasks = <<1>>
    /\ now = 1
    /\ call = [op |-> "go", tasks |-> 1, segs |-> 1]
    /\ ui = NoUI
    /\ \E c \in [1..NProcs -> 1..Len(Calls)] :
          /\ \A p \in 1..(NProcs - 1) : c[p] <= c[p + 1]
          /\ procs = [p \in 1..NProcs |-> Started(Calls[c[p]])]
    /\ locks = [w |-> Unlocked, t |-> <<Unlocked>>]
    /\ file = NoStore

Goto(p, pc) == procs' = [procs EXCEPT ![p].pc = pc]

\* Position after the task list is read or a task is done: the next task, or
\* the end of the loop.
Visit(r, i, body, end) ==
    IF i > Len(r.tasks)
    THEN [r EXCEPT !.pc = end, !.tasks = <<>>, !.i = 0]
    ELSE [r EXCEPT !.pc = body, !.i = i]


\* w.AddTask(name, "", tags, ""): Lock, w.Tasks = append(w.Tasks, &newTask)
\* as a read of the slice followed by a write of the longer one, Unlock.
GoAddTask(p) ==
    LET r == procs[p] IN
    /\ r.op = "AddTask"
    /\ \/ /\ r.pc = "start"
          /\ locks' = [locks EXCEPT !.w = LockCalled(@, p)]
          /\ Goto(p, "lock")
          /\ UNCHANGED <<heap, wTasks>>
       \/ /\ r.pc = "lock"
          /\ CanLock(locks.w)
          /\ locks' = [locks EXCEPT !.w = Locked(@, p)]
          /\ Goto(p, "read")
          /\ UNCHANGED <<heap, wTasks>>
       \/ /\ r.pc = "read"
          /\ procs' = [procs EXCEPT ![p].tasks = wTasks, ![p].pc = "write"]
          /\ UNCHANGED <<heap, wTasks, locks>>
       \/ /\ r.pc = "write"
          /\ heap' = Append(heap, NewTask("t", <<>>, "work"))
          /\ wTasks' = Append(r.tasks, Len(heap) + 1)
          /\ locks' = [locks EXCEPT !.t = Append(@, Unlocked)]
          /\ procs' = [procs EXCEPT ![p].tasks = <<>>, ![p].pc = "unlock"]
       \/ /\ r.pc = "unlock"
          /\ locks' = [locks EXCEPT !.w.writer = 0]
          /\ Goto(p, "done")
          /\ UNCHANGED <<heap, wTasks>>
    /\ UNCHANGED <<now, call, ui, file>>

\* t.AddSegment(""): Lock, the new segment stamped with time.Now() (read
\* once the lock is held, before the slice is touched), append as a read and
\* a write, Unlock.
GoAddSegment(p) ==
    LET r == procs[p] IN
    /\ r.op = "AddSegment"
    /\ \/ /\ r.pc = "start"
          /\ locks' = [locks EXCEPT !.t[r.arg] = LockCalled(@, p)]
          /\ Goto(p, "lock")
          /\ UNCHANGED heap
       \/ /\ r.pc = "lock"
          /\ CanLock(locks.t[r.arg])
          /\ locks' = [locks EXCEPT !.t[r.arg] = Locked(@, p)]
          /\ procs' = [procs EXCEPT ![p].stamp = now, ![p].pc = "read"]
          /\ UNCHANGED heap
       \/ /\ r.pc = "read"
          /\ procs' = [procs EXCEPT ![p].segs = heap[r.arg].Segments, ![p].pc = "write"]
          /\ UNCHANGED <<heap, locks>>
       \/ /\ r.pc = "write"
          /\ heap' = [heap EXCEPT ![r.arg].Segments = AddSegmentTo(r.segs, "", r.stamp)]
          /\ procs' = [procs EXCEPT ![p].segs = <<>>, ![p].stamp = ZeroTime,
                                    ![p].pc = "unlock"]
          /\ UNCHANGED locks
       \/ /\ r.pc = "unlock"
          /\ locks' = [locks EXCEPT !.t[r.arg].writer = 0]
          /\ Goto(p, "done")
          /\ UNCHANGED heap
    /\ UNCHANGED <<wTasks, now, call, ui, file>>

\* t.CloseSegment(): Lock, the loop that stamps the open segments, Unlock.
GoCloseSegment(p) ==
    LET r == procs[p] IN
    /\ r.op = "CloseSegment"
    /\ \/ /\ r.pc = "start"
          /\ locks' = [locks EXCEPT !.t[r.arg] = LockCalled(@, p)]
          /\ Goto(p, "lock")
          /\ UNCHANGED <<heap, now>>
       \/ /\ r.pc = "lock"
          /\ CanLock(locks.t[r.arg])
          /\ locks' = [locks EXCEPT !.t[r.arg] = Locked(@, p)]
          /\ Goto(p, "close")
          /\ UNCHANGED <<heap, now>>
       \/ /\ r.pc = "close"
          /\ \E out \in CloseSegmentOutcomes(heap[r.arg].Segments, now) :
                /\ heap' = [heap EXCEPT ![r.arg].Segments = out[1]]
                /\ now' = out[2]
          /\ Goto(p, "unlock")
          /\ UNCHANGED locks
       \/ /\ r.pc = "unlock"
          /\ locks' = [locks EXCEPT !.t[r.arg].writer = 0]
          /\ Goto(p, "done")
          /\ UNCHANGED <<heap, now>>
    /\ UNCHANGED <<wTasks, call, ui, file>>

\* t.SetCategory("completed"): Lock, t.Category = category, Unlock.
GoSetCategory(p) ==
    LET r == procs[p] IN
    /\ r.op = "SetCategory"
    /\ \/ /\ r.pc = "start"
          /\ locks' = [locks EXCEPT !.t[r.arg] = LockCalled(@, p)]
          /\ Goto(p, "lock")
          /\ UNCHANGED heap
       \/ /\ r.pc = "lock"
          /\ CanLock(locks.t[r.arg])
          /\ locks' = [locks EXCEPT !.t[r.arg] = Locked(@, p)]
          /\ Goto(p, "write")
          /\ UNCHANGED heap
       \/ /\ r.pc = "write"
          /\ heap' = [heap EXCEPT ![r.arg].Category = "completed"]
          /\ Goto(p, "unlock")
          /\ UNCHANGED locks
       \/ /\ r.pc = "unlock"
          /\ locks' = [locks EXCEPT !.t[r.arg].writer = 0]
          /\ Goto(p, "done")
          /\ UNCHANGED heap
    /\ UNCHANGED <<wTasks, now, call, ui, file>>

\* w.GetTaskIndex(task): the loop over w.Tasks, with no lock taken.  The
\* index found is kept in i.
GoGetTaskIndex(p) ==
    LET r == procs[p] IN
    /\ r.op = "GetTaskIndex"
    /\ r.pc = "start"
    /\ procs' = [procs EXCEPT ![p].i = GetTaskIndex(wTasks, r.arg), ![p].pc = "done"]
    /\ UNCHANGED <<heap, wTasks, now, call, ui, locks, file>>

\* One task of a loop whose body calls a Task method that reads the
\* segments: RLock, the read, RUnlock, and on to the next task.
VisitLocked(p, end) ==
    LET r == procs[p] IN
    \/ /\ r.pc = "rlock"
       /\ CanRLock(locks.t[r.tasks[r.i]])
       /\ locks' = [locks EXCEPT !.t[r.tasks[r.i]] = RLocked(@, p)]
       /\ Goto(p, "segs")
    \/ /\ r.pc = "segs"
       /\ Goto(p, "runlock")
       /\ UNCHANGED locks
    \/ /\ r.pc = "runlock"
       /\ locks' = [locks EXCEPT !.t[r.tasks[r.i]] = RUnlocked(@, p)]
       /\ procs' = [procs EXCEPT ![p] = Visit(r, r.i + 1, "rlock", end)]

\* w.GetSummaryByTagset(nil, nil): range over w.Tasks with no lock taken;
\* each task's duration is read under that task's read lock.
GoGetSummaryByTagset(p) ==
    LET r == procs[p] IN
    /\ r.op = "GetSummaryByTagset"
    /\ \/ /\ r.pc = "start"
          /\ procs' = [procs EXCEPT ![p] = Visit([r EXCEPT !.tasks = wTasks], 1, "rlock", "done")]
          /\ UNCHANGED locks
       \/ VisitLocked(p, "done")
    /\ UNCHANGED <<heap, wTasks, now, call, ui, file>>

\* w.GetTasksSortedByActivity(): RLock on the watch, the copy of w.Tasks,
\* the comparisons (IsActive and GetLastActivity, each under the task's read
\* lock; one visit per task stands for them), RUnlock.
GoGetTasksSortedByActivity(p) ==
    LET r == procs[p] IN
    /\ r.op = "GetTasksSortedByActivity"
    /\ \/ /\ r.pc = "start"
          /\ CanRLock(locks.w)
          /\ locks' = [locks EXCEPT !.w = RLocked(@, p)]
          /\ Goto(p, "copy")
       \/ /\ r.pc = "copy"
          /\ procs' = [procs EXCEPT ![p] = Visit([r EXCEPT !.tasks = wTasks], 1, "rlock", "unlockw")]
          /\ UNCHANGED locks
       \/ VisitLocked(p, "unlockw")
       \/ /\ r.pc = "unlockw"
          /\ locks' = [locks EXCEPT !.w = RUnlocked(@, p)]
          /\ Goto(p, "done")
    /\ UNCHANGED <<heap, wTasks, now, call, ui, file>>

\* w.GetTasksByCategory("work"): RLock on the watch; for every task of
\* w.Tasks, task.GetCategory() under the task's read lock and the append to
\* filteredTasks; sortTasksByActivity on the filtered tasks (GetLastActivity
\* under each task's read lock; one visit per task stands for the
\* comparisons); RUnlock.
GoGetTasksByCategory(p) ==
    LET r == procs[p] IN
    /\ r.op = "GetTasksByCategory"
    /\ \/ /\ r.pc = "start"
          /\ CanRLock(locks.w)
          /\ locks' = [locks EXCEPT !.w = RLocked(@, p)]
          /\ Goto(p, "copy")
       \/ /\ r.pc = "copy"
          /\ procs' = [procs EXCEPT ![p] = Visit([r EXCEPT !.tasks = wTasks], 1, "crlock", "sort")]
          /\ UNCHANGED locks
       \/ /\ r.pc = "crlock"
          /\ CanRLock(locks.t[r.tasks[r.i]])
          /\ locks' = [locks EXCEPT !.t[r.tasks[r.i]] = RLocked(@, p)]
          /\ Goto(p, "category")
       \/ /\ r.pc = "category"
          /\ procs' = [procs EXCEPT
                          ![p].filtered = IF GetCategory(heap[r.tasks[r.i]]) = "work"
                                          THEN Append(@, r.tasks[r.i]) ELSE @,
                          ![p].pc = "crunlock"]
          /\ UNCHANGED locks
       \/ /\ r.pc = "crunlock"
          /\ locks' = [locks EXCEPT !.t[r.tasks[r.i]] = RUnlocked(@, p)]
          /\ procs' = [procs EXCEPT ![p] = Visit(r, r.i + 1, "crlock", "sort")]
       \/ /\ r.pc = "sort"
          /\ procs' = [procs EXCEPT ![p] =
                          Visit([r EXCEPT !.tasks = r.filtered, !.filtered = <<>>],
                                1, "rlock", "unlockw")]
          /\ UNCHANGED locks
       \/ VisitLocked(p, "unlockw")
       \/ /\ r.pc = "unlockw"
          /\ locks' = [locks EXCEPT !.w = RUnlocked(@, p)]
          /\ Goto(p, "done")
    /\ UNCHANGED <<heap, wTasks, now, call, ui, file>>

\* w.SaveTasksToFile(path): yaml.Marshal(w.Tasks) reads the slice and then
\* every task's fields, with no lock taken; writing the file changes nothing
\* in memory.
GoSaveTasksToFile(p) ==
    LET r == procs[p] IN
    /\ r.op = "SaveTasksToFile"
    /\ \E next \in {IF r.pc = "start"
                     THEN Visit([r EXCEPT !.tasks = wTasks], 1, "marshal", "done")
                     ELSE Visit(r, r.i + 1, "marshal", "done")} :
          /\ r.pc \in {"start", "marshal"}
          /\ procs' = [procs EXCEPT ![p] = next]
          /\ file' = IF next.pc = "done"
                     THEN SaveTasksToFile(TRUE, heap, next.tasks, file)
                     ELSE file
    /\ UNCHANGED <<heap, wTasks, now, call, ui, locks>>

\* w.LoadTasksFromFile(path): no file empties w.Tasks, a file that cannot be
\* read or parsed leaves it, a readable file replaces it with freshly
\* allocated tasks; no lock is taken.
GoLoadTasksFromFile(p) ==
    LET r == procs[p] IN
    /\ r.op = "LoadTasksFromFile"
    /\ r.pc = "start"
    /\ \/ /\ r.file.kind = "unreadable"
          /\ UNCHANGED <<heap, wTasks, locks>>
       \/ /\ r.file.kind = "missing"
          /\ wTasks' = <<>>
          /\ UNCHANGED <<heap, locks>>
       \/ /\ r.file.kind = "ok"
          /\ heap' = heap \o r.file.tasks
          /\ wTasks' = [k \in 1..Len(r.file.tasks) |-> Len(heap) + k]
          /\ locks' = [locks EXCEPT !.t = @ \o [k \in 1..Len(r.file.tasks) |-> Unlocked]]
    /\ Goto(p, "done")
    /\ UNCHANGED <<now, call, ui, file>>

NextConc ==
    \E p \in 1..NProcs :
        \/ GoAddTask(p)
        \/ GoAddSegment(p)
        \/ GoCloseSegment(p)
        \/ GoSetCategory(p)
        \/ GoGetTaskIndex(p)
        \/ GoGetSummaryByTagset(p)
        \/ GoGetTasksSortedByActivity(p)
        \/ GoGetTasksByCategory(p)
        \/ GoSaveTasksToFile(p)
        \/ GoLoadTasksFromFile(p)

SpecConc == InitConc /\ [][NextConc]_vars


\* The memory accesses goroutine p's next step makes: which field, of which
\* task (0 for Watch.Tasks), read or write.
Acc(field, task, mode) == [field |-> field, task |-> task, mode |-> mode]
Access(p) ==
    LET r == procs[p] IN
    CASE r.op = "AddTask" /\ r.pc = "read" -> {Acc("Tasks", 0, "r")}
      [] r.op = "AddTask" /\ r.pc = "write" -> {Acc("Tasks", 0, "w")}
      [] r.op = "AddSegment" /\ r.pc = "read" -> {Acc("Segments", r.arg, "r")}
      [] r.op = "AddSegment" /\ r.pc = "write" -> {Acc("Segments", r.arg, "w")}
      [] r.op = "CloseSegment" /\ r.pc = "close" -> {Acc("Segments", r.arg, "w")}
      [] r.op = "SetCategory" /\ r.pc = "write" -> {Acc("Category", r.arg, "w")}
      [] r.op = "GetTaskIndex" /\ r.pc = "start" -> {Acc("Tasks", 0, "r")}
      [] r.op = "GetSummaryByTagset" /\ r.pc = "start" -> {Acc("Tasks", 0, "r")}
      [] r.op = "GetTasksSortedByActivity" /\ r.pc = "copy" -> {Acc("Tasks", 0, "r")}
      [] r.op = "GetTasksByCategory" /\ r.pc = "copy" -> {Acc("Tasks", 0, "r")}
      [] r.op = "GetTasksByCategory" /\ r.pc = "category" -> {Acc("Category", r.tasks[r.i], "r")}
      [] r.op = "SaveTasksToFile" /\ r.pc = "start" -> {Acc("Tasks", 0, "r")}
      [] r.op = "SaveTasksToFile" /\ r.pc = "marshal" ->
            {Acc("Segments", r.tasks[r.i], "r"), Acc("Category", r.tasks[r.i], "r")}
      [] r.op = "LoadTasksFromFile" /\ r.pc = "start" /\ r.file.kind # "unreadable" ->
            {Acc("Tasks", 0, "w")}
      [] r.pc = "segs" -> {Acc("Segments", r.tasks[r.i], "r")}
      [] OTHER -> {}

\* The mutex that guards an access, and whether p holds it in a mode that
\* allows the access.
Guard(a) == IF a.field = "Tasks" THEN locks.w ELSE locks.t[a.task]
Holds(p, a) ==
    \/ Guard(a).writer = p
    \/ a.mode = "r" /\ p \in Guard(a).readers

AllDone == \A p \in 1..NProcs : procs[p].pc = "done"
CountOp(op) == Cardinality({p \in 1..NProcs : procs[p].op = op})

\* One step of goroutine p's call.
GoStep(p) ==
    \/ GoAddTask(p)
    \/ GoAddSegment(p)
    \/ GoCloseSegment(p)
    \/ GoSetCategory(p)
    \/ GoGetTaskIndex(p)
    \/ GoGetSummaryByTagset(p)
    \/ GoGetTasksSortedByActivity(p)
    \/ GoGetTasksByCategory(p)
    \/ GoSaveTasksToFile(p)
    \/ GoLoadTasksFromFile(p)

\* The Go scheduler: a goroutine that can run, or whose mutex is free, is not
\* left waiting for ever.
SpecConcFair == SpecConc /\ \A p \in 1..NProcs : WF_vars(GoStep(p))

\* The mutexes goroutine p holds, and the one its next step is a call of
\* Lock or RLock on, or the return of that call.
HeldTasks(p) ==
    {a \in 1..Len(locks.t) : locks.t[a].writer = p \/ p \in locks.t[a].readers}
HoldsWatch(p) == locks.w.writer = p \/ p \in locks.w.readers
WantsWatch(p) ==
    \/ procs[p].op = "AddTask" /\ procs[p].pc \in {"start", "lock"}
    \/ procs[p].op \in {"GetTasksSortedByActivity", "GetTasksByCategory"}
          /\ procs[p].pc = "start"
WantedTasks(p) ==
    IF procs[p].op \in {"AddSegment", "CloseSegment", "SetCategory"}
          /\ procs[p].pc \in {"start", "lock"}
    THEN {procs[p].arg}
    ELSE IF procs[p].pc \in {"rlock", "crlock"} THEN {procs[p].tasks[procs[p].i]}
    ELSE {}

LockOrder ==
    \A p \in 1..NProcs :
        /\ Cardinality(HeldTasks(p)) <= 1
        /\ WantedTasks(p) # {} => HeldTasks(p) = {}
        /\ WantsWatch(p) => HeldTasks(p) = {} /\ ~HoldsWatch(p)

\* C28: no interleaving of concurrent calls deadlocks: a goroutine takes a
\* task's lock while holding at most the watch's lock, never a second task
\* lock and never a lock it already holds, and every call eventually
\* returns.
C28_NoDeadlock == [](LockOrder) /\ <>AllDone

\* A goroutine that holds the watch's read lock waits for a task's lock that
\* a writer holds, while AddTask waits in Lock for the watch.
C28_Witness ==
    \E p, q, x \in 1..NProcs :
        /\ HoldsWatch(p)
        /\ procs[p].pc \in {"rlock", "crlock"}
        /\ locks.t[procs[p].tasks[procs[p].i]].writer = q
        /\ procs[x].op = "AddTask"
        /\ procs[x].pc = "lock"
        /\ x \in locks.w.waiting

\* C8: under every interleaving of concurrent calls, whenever one goroutine
\* is about to write Watch.Tasks, or a task's segments or category, and
\* another is about to read or write the same field, both hold the guarding
\* lock in the mode their access needs (so the two cannot happen together).
C8_PublicMethodsThreadSafe ==
    \A p, q \in 1..NProcs :
        \A a \in Access(p), b \in Access(q) :
            (p # q /\ a.field = b.field /\ a.task = b.task /\ a.mode = "w")
                => (Holds(p, a) /\ Holds(q, b))

\* AddTask holds Watch.mu for writing and is about to store the longer slice
\* while another goroutine, holding the mutex in no mode, is about to read
\* Watch.Tasks.
C8_Witness ==
    \E p, q \in 1..NProcs :
        /\ procs[p].op = "AddTask" /\ procs[p].pc = "write" /\ locks.w.writer = p
        /\ Acc("Tasks", 0, "r") \in Access(q)
        /\ q \notin locks.w.readers

\* C23: the create timestamps of a task's segments never decrease along the
\* list, whatever AddSegment and CloseSegment calls goroutines make on the
\* task at once: each timestamp is read with the task's lock held.
C23_CreatesInOrder ==
    \A a \in 1..Len(heap) :
        \A i, j \in 1..Len(heap[a].Segments) :
            i < j => heap[a].Segments[i].Create <= heap[a].Segments[j].Create

\* Two goroutines have added a segment each and a third closed segments
\* meanwhile: three segments, the last created later than the first.
C23_Witness ==
    /\ \A p \in 1..NProcs : procs[p].pc = "done"
    /\ Len(heap[1].Segments) = 3
    /\ heap[1].Segments[3].Create > heap[1].Segments[1].Create
    /\ heap[1].Segments[3].Finish = ZeroTime

\* C9: when every goroutine has returned and none of them replaced the list
\* from a file, the watch has one more task per AddTask call and the task
\* one more segment per AddSegment call, whatever the interleaving was.
C9_AppendsNeverLost ==
    (AllDone /\ \A p \in 1..NProcs :
                    procs[p].op = "LoadTasksFromFile" => procs[p].file.kind = "unreadable")
        => /\ Len(wTasks) = call.tasks + CountOp("AddTask")
           /\ Len(heap[1].Segments) = call.segs + CountOp("AddSegment")

\* NProcs goroutines called AddTask once each and all of them returned.
C9_Witness ==
    /\ AllDone
    /\ CountOp("AddTask") = NProcs
    /\ Len(wTasks) = call.tasks + NProcs

====
